---- MODULE Spec2Model ----
(***************************************************************************)
(* Model of the natural-language command parser of AutoCad-MCP             *)
(* (src/src/autocad_mcp/nlp_processor.py).                                 *)
(*                                                                         *)
(* A text is a sequence of characters.  A character is a one-character     *)
(* string; a character outside ASCII is written by its code point, e.g.    *)
(* "u5706" is U+5706.  A float is a record [m, e] standing for m / 10^e,   *)
(* normalised so that m has no trailing zero while e > 0.                  *)
(***************************************************************************)
EXTENDS Integers, Sequences, FiniteSets, TLC

None == "None"

(***************************************************************************)
(* Characters: str.lower(), the equivalence re.IGNORECASE uses, \d and \s. *)
(***************************************************************************)
UpperToLower ==
  "A" :> "a" @@ "B" :> "b" @@ "C" :> "c" @@ "D" :> "d" @@ "E" :> "e" @@ "F"
  :> "f" @@ "G" :> "g" @@ "H" :> "h" @@ "I" :> "i" @@ "J" :> "j" @@ "K" :>
  "k" @@ "L" :> "l" @@ "M" :> "m" @@ "N" :> "n" @@ "O" :> "o" @@ "P" :> "p"
  @@ "Q" :> "q" @@ "R" :> "r" @@ "S" :> "s" @@ "T" :> "t" @@ "U" :> "u" @@
  "V" :> "v" @@ "W" :> "w" @@ "X" :> "x" @@ "Y" :> "y" @@ "Z" :> "z"

UpperCase == DOMAIN UpperToLower

\* str.lower() on one character.  U+017F (long s) has no lower-case mapping.
LowerChar(c) == IF c \in UpperCase THEN UpperToLower[c] ELSE c

RECURSIVE LowerPrefix(_, _)
\* the first n characters of t, lower-cased
LowerPrefix(t, n) ==
  IF n = 0 THEN <<>> ELSE Append(LowerPrefix(t, n - 1), LowerChar(t[n]))

\* str.lower()
Lower(t) == LowerPrefix(t, Len(t))

\* Character equality under re.IGNORECASE: equal lower-case forms, and the
\* extra Unicode equivalence of "s" with U+017F that the re module applies.
IgnoreCaseEq(a, b) ==
  \/ a = b
  \/ LowerChar(a) = LowerChar(b)
  \/ (LowerChar(a) = "s" /\ b = "u017f")
  \/ (a = "u017f" /\ LowerChar(b) = "s")

DigitValue ==
  "0" :> 0 @@ "1" :> 1 @@ "2" :> 2 @@ "3" :> 3 @@ "4" :> 4 @@ "5" :> 5 @@ "6" :> 6 @@ "7" :> 7 @@ "8" :> 8 @@ "9" :> 9

IsDigit(c) == c \in DOMAIN DigitValue

IsSpace(c) == c \in {" ", "\t", "\n"}

(***************************************************************************)
(* The module-level dict literals, in insertion order (a dict iterates in  *)
(* insertion order): the values the module globals hold after import.     *)
(***************************************************************************)
COLOR_MAP_SOURCE ==
  <<
    <<<<"r","e","d">>, 1>>,
    <<<<"y","e","l","l","o","w">>, 2>>,
    <<<<"g","r","e","e","n">>, 3>>,
    <<<<"c","y","a","n">>, 4>>,
    <<<<"b","l","u","e">>, 5>>,
    <<<<"m","a","g","e","n","t","a">>, 6>>,
    <<<<"w","h","i","t","e">>, 7>>,
    <<<<"g","r","a","y">>, 8>>,
    <<<<"g","r","e","y">>, 8>>,
    <<<<"b","l","a","c","k">>, 250>>,
    <<<<"o","r","a","n","g","e">>, 30>>,
    <<<<"b","r","o","w","n">>, 33>>,
    <<<<"p","u","r","p","l","e">>, 200>>,
    <<<<"p","i","n","k">>, 221>>,
    <<<<"r","o","s","s","o">>, 1>>,
    <<<<"r","o","s","s","a">>, 1>>,
    <<<<"g","i","a","l","l","o">>, 2>>,
    <<<<"g","i","a","l","l","a">>, 2>>,
    <<<<"v","e","r","d","e">>, 3>>,
    <<<<"c","i","a","n","o">>, 4>>,
    <<<<"b","l","u">>, 5>>,
    <<<<"a","z","z","u","r","r","o">>, 5>>,
    <<<<"a","z","z","u","r","r","a">>, 5>>,
    <<<<"b","i","a","n","c","o">>, 7>>,
    <<<<"b","i","a","n","c","a">>, 7>>,
    <<<<"g","r","i","g","i","o">>, 8>>,
    <<<<"g","r","i","g","i","a">>, 8>>,
    <<<<"n","e","r","o">>, 250>>,
    <<<<"n","e","r","a">>, 250>>,
    <<<<"a","r","a","n","c","i","o","n","e">>, 30>>,
    <<<<"m","a","r","r","o","n","e">>, 33>>,
    <<<<"v","i","o","l","a">>, 200>>,
    <<<<"r","o","s","a">>, 221>>,
    <<<<"u7ea2">>, 1>>,
    <<<<"u7ea2","u8272">>, 1>>,
    <<<<"u9ec4">>, 2>>,
    <<<<"u9ec4","u8272">>, 2>>,
    <<<<"u7eff">>, 3>>,
    <<<<"u7eff","u8272">>, 3>>,
    <<<<"u9752">>, 4>>,
    <<<<"u9752","u8272">>, 4>>,
    <<<<"u84dd">>, 5>>,
    <<<<"u84dd","u8272">>, 5>>,
    <<<<"u6d0b","u7ea2">>, 6>>,
    <<<<"u6d0b","u7ea2","u8272">>, 6>>,
    <<<<"u7d2b","u7ea2">>, 6>>,
    <<<<"u767d">>, 7>>,
    <<<<"u767d","u8272">>, 7>>,
    <<<<"u7070">>, 8>>,
    <<<<"u7070","u8272">>, 8>>,
    <<<<"u9ed1">>, 250>>,
    <<<<"u9ed1","u8272">>, 250>>,
    <<<<"u6a59">>, 30>>,
    <<<<"u6a59","u8272">>, 30>>,
    <<<<"u68d5">>, 33>>,
    <<<<"u68d5","u8272">>, 33>>,
    <<<<"u7d2b">>, 200>>,
    <<<<"u7d2b","u8272">>, 200>>,
    <<<<"u7c89">>, 221>>,
    <<<<"u7c89","u8272">>, 221>>,
    <<<<"u7c89","u7ea2">>, 221>>
  >>

SHAPE_KEYWORDS_SOURCE ==
  <<
    <<<<"l","i","n","e">>, "line">>,
    <<<<"c","i","r","c","l","e">>, "circle">>,
    <<<<"a","r","c">>, "arc">>,
    <<<<"e","l","l","i","p","s","e">>, "ellipse">>,
    <<<<"r","e","c","t","a","n","g","l","e">>, "rectangle">>,
    <<<<"r","e","c","t">>, "rectangle">>,
    <<<<"s","q","u","a","r","e">>, "rectangle">>,
    <<<<"p","o","l","y","l","i","n","e">>, "polyline">>,
    <<<<"p","o","l","y","g","o","n">>, "polyline">>,
    <<<<"t","e","x","t">>, "text">>,
    <<<<"d","i","m","e","n","s","i","o","n">>, "dimension">>,
    <<<<"h","a","t","c","h">>, "hatch">>,
    <<<<"f","i","l","l">>, "hatch">>,
    <<<<"l","i","n","e","a">>, "line">>,
    <<<<"c","e","r","c","h","i","o">>, "circle">>,
    <<<<"a","r","c","o">>, "arc">>,
    <<<<"e","l","l","i","s","s","e">>, "ellipse">>,
    <<<<"r","e","t","t","a","n","g","o","l","o">>, "rectangle">>,
    <<<<"q","u","a","d","r","a","t","o">>, "rectangle">>,
    <<<<"p","o","l","i","l","i","n","e","a">>, "polyline">>,
    <<<<"p","o","l","i","g","o","n","o">>, "polyline">>,
    <<<<"t","e","s","t","o">>, "text">>,
    <<<<"q","u","o","t","a">>, "dimension">>,
    <<<<"q","u","o","t","a","t","u","r","a">>, "dimension">>,
    <<<<"r","i","e","m","p","i","m","e","n","t","o">>, "hatch">>,
    <<<<"t","r","a","t","t","e","g","g","i","o">>, "hatch">>,
    <<<<"u7ebf">>, "line">>,
    <<<<"u76f4","u7ebf">>, "line">>,
    <<<<"u5706">>, "circle">>,
    <<<<"u5706","u5f62">>, "circle">>,
    <<<<"u5f27">>, "arc">>,
    <<<<"u5706","u5f27">>, "arc">>,
    <<<<"u692d","u5706">>, "ellipse">>,
    <<<<"u692d","u5706","u5f62">>, "ellipse">>,
    <<<<"u77e9","u5f62">>, "rectangle">>,
    <<<<"u65b9","u5f62">>, "rectangle">>,
    <<<<"u6b63","u65b9","u5f62">>, "rectangle">>,
    <<<<"u591a","u6bb5","u7ebf">>, "polyline">>,
    <<<<"u6298","u7ebf">>, "polyline">>,
    <<<<"u591a","u8fb9","u5f62">>, "polyline">>,
    <<<<"u6587","u5b57">>, "text">>,
    <<<<"u6587","u672c">>, "text">>,
    <<<<"u6807","u6ce8">>, "dimension">>,
    <<<<"u5c3a","u5bf8">>, "dimension">>,
    <<<<"u586b","u5145">>, "hatch">>,
    <<<<"u56fe","u6848","u586b","u5145">>, "hatch">>
  >>

ACTION_KEYWORDS_SOURCE ==
  <<
    <<<<"d","r","a","w">>, "draw">>,
    <<<<"c","r","e","a","t","e">>, "draw">>,
    <<<<"a","d","d">>, "draw">>,
    <<<<"m","a","k","e">>, "draw">>,
    <<<<"p","l","a","c","e">>, "draw">>,
    <<<<"i","n","s","e","r","t">>, "draw">>,
    <<<<"m","o","d","i","f","y">>, "modify">>,
    <<<<"c","h","a","n","g","e">>, "modify">>,
    <<<<"e","d","i","t">>, "modify">>,
    <<<<"m","o","v","e">>, "move">>,
    <<<<"r","o","t","a","t","e">>, "rotate">>,
    <<<<"s","c","a","l","e">>, "scale">>,
    <<<<"r","e","s","i","z","e">>, "scale">>,
    <<<<"d","e","l","e","t","e">>, "erase">>,
    <<<<"r","e","m","o","v","e">>, "erase">>,
    <<<<"e","r","a","s","e">>, "erase">>,
    <<<<"s","a","v","e">>, "save">>,
    <<<<"d","i","s","e","g","n","a">>, "draw">>,
    <<<<"c","r","e","a">>, "draw">>,
    <<<<"a","g","g","i","u","n","g","i">>, "draw">>,
    <<<<"i","n","s","e","r","i","s","c","i">>, "draw">>,
    <<<<"t","r","a","c","c","i","a">>, "draw">>,
    <<<<"m","o","d","i","f","i","c","a">>, "modify">>,
    <<<<"c","a","m","b","i","a">>, "modify">>,
    <<<<"s","p","o","s","t","a">>, "move">>,
    <<<<"r","u","o","t","a">>, "rotate">>,
    <<<<"s","c","a","l","a">>, "scale">>,
    <<<<"r","i","d","i","m","e","n","s","i","o","n","a">>, "scale">>,
    <<<<"e","l","i","m","i","n","a">>, "erase">>,
    <<<<"c","a","n","c","e","l","l","a">>, "erase">>,
    <<<<"r","i","m","u","o","v","i">>, "erase">>,
    <<<<"s","a","l","v","a">>, "save">>,
    <<<<"u753b">>, "draw">>,
    <<<<"u7ed8","u5236">>, "draw">>,
    <<<<"u521b","u5efa">>, "draw">>,
    <<<<"u6dfb","u52a0">>, "draw">>,
    <<<<"u5236","u4f5c">>, "draw">>,
    <<<<"u653e","u7f6e">>, "draw">>,
    <<<<"u4fee","u6539">>, "modify">>,
    <<<<"u66f4","u6539">>, "modify">>,
    <<<<"u8c03","u6574">>, "modify">>,
    <<<<"u79fb","u52a8">>, "move">>,
    <<<<"u65cb","u8f6c">>, "rotate">>,
    <<<<"u7f29","u653e">>, "scale">>,
    <<<<"u5220","u9664">>, "erase">>,
    <<<<"u79fb","u9664">>, "erase">>,
    <<<<"u64e6","u9664">>, "erase">>,
    <<<<"u4fdd","u5b58">>, "save">>
  >>


(***************************************************************************)
(* Floats.                                                                 *)
(***************************************************************************)
RECURSIVE Normalise(_, _)
\* m / 10^e with the trailing zeros of the fraction dropped: 2.50 = 2.5
Normalise(m, e) ==
  IF e > 0 /\ m % 10 = 0 THEN Normalise(m \div 10, e - 1) ELSE [m |-> m, e |-> e]

\* An int literal of the source as a float; 50 == 50.0 in Python.
Num(n) == [m |-> n, e |-> 0]

\* Outcome of float() on a string that is no numeric literal: ValueError.
FloatError == [m |-> 0, e |-> -1]

RECURSIVE DigitsEnd(_, _)
\* \d* from position i: the position after the last digit taken
DigitsEnd(t, i) ==
  IF i <= Len(t) /\ IsDigit(t[i]) THEN DigitsEnd(t, i + 1) ELSE i

RECURSIVE DigitsInt(_, _)
\* the integer that the first n characters of a digit string denote
DigitsInt(t, n) ==
  IF n = 0 THEN 0 ELSE 10 * DigitsInt(t, n - 1) + DigitValue[t[n]]

\* the integer that the digits s[b..ie-1] and s[fb..fe-1] denote together
SignificandOf(s, b, ie, fb, fe) ==
  LET Value(digits) == DigitsInt(digits, Len(digits))
  IN  Value(SubSeq(s, b, ie - 1) \o SubSeq(s, fb, fe - 1))

\* float(s) for a string s: sign, digits, optional point, digits, with at
\* least one digit; anything else raises ValueError.
float(s) ==
  LET Value(b, ie, fb, fe) ==
        IF fe # Len(s) + 1 \/ ie - b + fe - fb = 0
        THEN FloatError
        ELSE Normalise((IF s[1] = "-" THEN -1 ELSE 1) * SignificandOf(s, b, ie, fb, fe),
                       fe - fb)
      Fraction(b, ie, fb) == Value(b, ie, fb, DigitsEnd(s, fb))
      Integer(b, ie) == Fraction(b, ie, IF ie <= Len(s) /\ s[ie] = "." THEN ie + 1 ELSE ie)
      Sign(b) == Integer(b, DigitsEnd(s, b))
  IN  Sign(IF Len(s) > 0 /\ s[1] \in {"-", "+"} THEN 2 ELSE 1)

\* a + b and a / 2 on floats (used for the midpoint of a dimension)
RECURSIVE Pow10(_)
Pow10(n) == IF n = 0 THEN 1 ELSE 10 * Pow10(n - 1)

FloatAdd(a, b) ==
  LET Sum(e) == Normalise(a.m * Pow10(e - a.e) + b.m * Pow10(e - b.e), e)
  IN  Sum(IF a.e > b.e THEN a.e ELSE b.e)

FloatHalf(a) == Normalise(a.m * 5, a.e + 1)

(***************************************************************************)
(* Regular expressions.  Every pattern of the source is matched the way    *)
(* the re module matches it: leftmost, greedy.  In none of them can        *)
(* backtracking into a shorter repetition make a failed match succeed,     *)
(* because what follows each repetition cannot start with a character      *)
(* the repetition accepts.                                                 *)
(***************************************************************************)
RECURSIVE SkipSpaces(_, _)
\* \s* from position i
SkipSpaces(t, i) ==
  IF i <= Len(t) /\ IsSpace(t[i]) THEN SkipSpaces(t, i + 1) ELSE i

\* \.?\d* from position ie: the position after what is taken
FractionEnd(t, ie) ==
  DigitsEnd(t, IF ie <= Len(t) /\ t[ie] = "." THEN ie + 1 ELSE ie)

\* Mutant of NumberEnd: \d* in place of \d+, a sign or a point alone matches.
NumberEnd_NoDigit(t, i, signed) ==
  LET End(e) == IF e = i THEN 0 ELSE e
      Digits(b, ie) == End(FractionEnd(t, ie))
      Sign(b) == Digits(b, DigitsEnd(t, b))
  IN  Sign(IF signed /\ i <= Len(t) /\ t[i] = "-" THEN i + 1 ELSE i)

\* -?\d+\.?\d*  (signed) or \d+\.?\d* at position i: the position after the
\* match, 0 when there is no match
NumberEnd(t, i, signed) ==
  LET Digits(b, ie) == IF ie = b THEN 0 ELSE FractionEnd(t, ie)
      Sign(b) == Digits(b, DigitsEnd(t, b))
  IN  Sign(IF signed /\ i <= Len(t) /\ t[i] = "-" THEN i + 1 ELSE i)

\* the literal string k at position i of t
LiteralAt(t, i, k, ignorecase) ==
  /\ i + Len(k) - 1 <= Len(t)
  /\ IF ignorecase
     THEN /\ IgnoreCaseEq(t[i], k[1])
          /\ \A j \in 2..Len(k) : IgnoreCaseEq(t[i + j - 1], k[j])
     ELSE /\ t[i] = k[1]
          /\ \A j \in 2..Len(k) : t[i + j - 1] = k[j]

\* no match of COORD_PATTERN
NoCoordMatch == [end |-> 0, g1 |-> <<>>, g2 |-> <<>>]

\* COORD_PATTERN at position i: [end, g1, g2] with end = 0 when no match
CoordMatchAt(t, i) ==
  LET Close(p1, e1, p3, e2, p4) ==
        [end |-> IF p4 <= Len(t) /\ t[p4] = ")" THEN p4 + 1 ELSE p4,
         g1 |-> SubSeq(t, p1, e1 - 1), g2 |-> SubSeq(t, p3, e2 - 1)]
      Second(p1, e1, p3, e2) ==
        IF e2 = 0 THEN NoCoordMatch ELSE Close(p1, e1, p3, e2, SkipSpaces(t, e2))
      AfterComma(p1, e1, p3) == Second(p1, e1, p3, NumberEnd(t, p3, TRUE))
      Comma(p1, e1, p2) ==
        IF p2 > Len(t) \/ t[p2] # "," THEN NoCoordMatch
        ELSE AfterComma(p1, e1, SkipSpaces(t, p2 + 1))
      First(p1, e1) == IF e1 = 0 THEN NoCoordMatch ELSE Comma(p1, e1, SkipSpaces(t, e1))
      Open(p1) == First(p1, NumberEnd(t, p1, TRUE))
  IN  Open(SkipSpaces(t, IF i <= Len(t) /\ t[i] = "(" THEN i + 1 ELSE i))

RECURSIVE CoordFindIter(_, _)
\* COORD_PATTERN.finditer(text) from position pos: the matches, left to
\* right, each search starting where the previous match ended
CoordFindIter(t, pos) ==
  LET Matches(m) == IF m.end = 0 THEN CoordFindIter(t, pos + 1)
                    ELSE <<m>> \o CoordFindIter(t, m.end)
  IN  IF pos > Len(t) THEN <<>> ELSE Matches(CoordMatchAt(t, pos))

RECURSIVE NumberFindIter(_, _)
\* NUMBER_PATTERN.finditer(text) from position pos: the captured groups
NumberFindIter(t, pos) ==
  LET Matches(e) == IF e = 0 THEN NumberFindIter(t, pos + 1)
                    ELSE <<SubSeq(t, pos, e - 1)>> \o NumberFindIter(t, e)
  IN  IF pos > Len(t) THEN <<>> ELSE Matches(NumberEnd(t, pos, TRUE))

\* kw \s* (?:opt)? \s* [=:]? \s* (\d+\.?\d*) at position i: the captured
\* group, <<>> when there is no match.  With opt = <<>> this is
\* kw \s* [=:]? \s* (\d+\.?\d*).
KeywordNumberAt(t, i, kw, opt, ignorecase) ==
  LET Group(p3, e) == IF e # 0 THEN SubSeq(t, p3, e - 1) ELSE <<>>
      Number(p3) == Group(p3, NumberEnd(t, p3, FALSE))
      Separator(p1) ==
        Number(SkipSpaces(t, IF p1 <= Len(t) /\ t[p1] \in {"=", ":"} THEN p1 + 1 ELSE p1))
      Optional(p0) ==
        Separator(IF opt # <<>> /\ LiteralAt(t, p0, opt, ignorecase)
                  THEN SkipSpaces(t, p0 + Len(opt)) ELSE p0)
  IN  IF LiteralAt(t, i, kw, ignorecase) THEN Optional(SkipSpaces(t, i + Len(kw))) ELSE <<>>

\* a or b, for match results: <<>> stands for None
OrElse(a, b) == IF a # <<>> THEN a ELSE b

RECURSIVE KeywordNumberSearch(_, _, _, _, _)
\* re.search of that pattern from position pos: group(1) of the leftmost
\* match, <<>> when re.search returns None
KeywordNumberSearch(t, pos, kw, opt, ignorecase) ==
  IF pos > Len(t) THEN <<>>
  ELSE OrElse(KeywordNumberAt(t, pos, kw, opt, ignorecase),
              KeywordNumberSearch(t, pos + 1, kw, opt, ignorecase))

RECURSIVE Contains(_, _, _)
\* k in t, for strings: k occurs in t at some position >= pos
Contains(t, k, pos) ==
  IF pos + Len(k) - 1 > Len(t) THEN FALSE
  ELSE LiteralAt(t, pos, k, FALSE) \/ Contains(t, k, pos + 1)

(***************************************************************************)
(* State.                                                                  *)
(***************************************************************************)
VARIABLES
  COLOR_MAP,        \* module global: ordered <<name, colour index>> pairs
  SHAPE_KEYWORDS,   \* module global: ordered <<surface form, shape tag>> pairs
  ACTION_KEYWORDS,  \* module global: ordered <<surface form, action tag>> pairs
  _color_pattern,   \* NLPProcessor._color_pattern: the alternatives, in order
  text,             \* the command text a caller is composing
  words,            \* number of vocabulary items typed into text
  pc,               \* "compose" while typing, then the name of the method
                    \* that returned, or "raised"
  parsed,           \* the ParsedCommand the last parse_command call returned
  tag,              \* what the last identify_action / identify_shape returned
  last_color,       \* what the last extract_color returned
  found,            \* what the last extract_quoted_text, extract_coordinates
                    \* or extract_numbers returned
  kept,             \* a ParsedCommand the caller holds on to
  calls,            \* parse_command calls made since kept was taken
  frames,           \* per concurrent caller: the frame of its parse_command call
  host,             \* the machine: pywin32 importable or not, the configured CAD
                    \* type, and what the CAD application answers over COM
  cad_service,      \* module global of server.py: the CADService, or NoService
  reply,            \* what the last service operation raised or returned
  steps             \* service operations and host changes so far

globals == <<COLOR_MAP, SHAPE_KEYWORDS, ACTION_KEYWORDS, _color_pattern>>

caller == <<text, words, pc, parsed, tag, last_color, found, kept, calls>>

service == <<host, cad_service, reply, steps>>

vars == <<COLOR_MAP, SHAPE_KEYWORDS, ACTION_KEYWORDS, _color_pattern,
          text, words, pc, parsed, tag, last_color, found, kept, calls, frames,
          host, cad_service, reply, steps>>

\* The absent colour index: extract_color's None.
NoColor == -1

(***************************************************************************)
(* KeywordRegistry: extract_color, identify_action, identify_shape.        *)
(***************************************************************************)
RECURSIVE SortedByLen(_, _)
\* sorted(names, key=len, reverse=True): the names of length n, then the
\* shorter ones; the sort is stable, names of one length keep their order
SortedByLen(names, n) ==
  IF n = 0 THEN <<>>
  ELSE SelectSeq(names, LAMBDA k : Len(k) = n) \o SortedByLen(names, n - 1)

\* the length of the longest of names
MaxLen(names) ==
  LET Greatest(lens) == IF lens = {} THEN 0 ELSE CHOOSE n \in lens : \A m \in lens : m <= n
  IN  Greatest({Len(names[i]) : i \in 1..Len(names)})

\* d.keys(): the keys, in insertion order
Keys(d) == [i \in 1..Len(d) |-> d[i][1]]

\* Mutant of _build_color_pattern: reverse=True is missing, shortest first.
_build_color_pattern_Ascending(color_map) ==
  LET Reversed(desc) == [i \in 1..Len(desc) |-> desc[Len(desc) + 1 - i]]
      Sorted(keys) == Reversed(SortedByLen(keys, MaxLen(keys)))
  IN  Sorted(Keys(color_map))

\* the alternation "|".join(re.escape(c) for c in colors), re.IGNORECASE
_build_color_pattern(color_map) ==
  LET Sorted(keys) == SortedByLen(keys, MaxLen(keys))
  IN  Sorted(Keys(color_map))

\* the first alternative, in the order of the pattern, that matches at
\* position pos; 0 if none does
AlternativeAt(t, pos, pattern) ==
  LET First(ks) == IF ks = {} THEN 0 ELSE CHOOSE k \in ks : \A j \in ks : k <= j
  IN  First({k \in 1..Len(pattern) : LiteralAt(t, pos, pattern[k], TRUE)})

RECURSIVE PatternSearch(_, _, _)
\* pattern.search(text) from position pos: match.group(), <<>> for no match
PatternSearch(t, pos, pattern) ==
  LET Match(k) == IF k # 0 THEN SubSeq(t, pos, pos + Len(pattern[k]) - 1)
                  ELSE PatternSearch(t, pos + 1, pattern)
  IN  IF pos > Len(t) THEN <<>> ELSE Match(AlternativeAt(t, pos, pattern))

\* d.get(key, default); the keys of a dict are distinct
DictGet(d, key, default) ==
  LET Value(hits) == IF hits = {} THEN default ELSE d[CHOOSE i \in hits : TRUE][2]
  IN  Value({i \in 1..Len(d) : d[i][1] = key})

extract_color(t) ==
  LET Color(match) ==
        IF match # <<>> THEN DictGet(COLOR_MAP, Lower(match), NoColor) ELSE NoColor
  IN  Color(PatternSearch(t, 1, _color_pattern))

RECURSIVE FirstKeyword_LastWins(_, _, _)
\* Mutant of FirstKeyword: the loop does not stop at the first hit.
FirstKeyword_LastWins(table, text_lower, i) ==
  LET Later(rest) ==
        IF rest # None THEN rest
        ELSE IF Contains(text_lower, Lower(table[i][1]), 1) THEN table[i][2]
        ELSE None
  IN  IF i > Len(table) THEN None
      ELSE Later(FirstKeyword_LastWins(table, text_lower, i + 1))

RECURSIVE FirstKeyword(_, _, _)
\* for keyword, tag in table.items(): if keyword.lower() in text_lower: return tag
FirstKeyword(table, text_lower, i) ==
  IF i > Len(table) THEN None
  ELSE IF Contains(text_lower, Lower(table[i][1]), 1) THEN table[i][2]
  ELSE FirstKeyword(table, text_lower, i + 1)

identify_action(t) == FirstKeyword(ACTION_KEYWORDS, Lower(t), 1)

identify_shape(t) == FirstKeyword(SHAPE_KEYWORDS, Lower(t), 1)

(***************************************************************************)
(* Extractors.  A float() that raises leaves FloatError in the list; the   *)
(* caller's exc flag reports it.                                           *)
(***************************************************************************)
RECURSIVE CoordFloats(_, _)
\* (float(match.group(1)), float(match.group(2))) for the first n matches
CoordFloats(ms, n) ==
  IF n = 0 THEN <<>>
  ELSE Append(CoordFloats(ms, n - 1), <<float(ms[n].g1), float(ms[n].g2)>>)

\* Mutant of extract_coordinates: the matches are taken right to left.
extract_coordinates_Reversed(t) ==
  LET Floats(ms) == CoordFloats([k \in 1..Len(ms) |-> ms[Len(ms) + 1 - k]], Len(ms))
  IN  Floats(CoordFindIter(t, 1))

extract_coordinates(t) ==
  LET Floats(ms) == CoordFloats(ms, Len(ms))
  IN  Floats(CoordFindIter(t, 1))

RECURSIVE NumberFloats(_, _)
\* float(m.group(1)) for the first n matches
NumberFloats(ms, n) ==
  IF n = 0 THEN <<>> ELSE Append(NumberFloats(ms, n - 1), float(ms[n]))

extract_numbers(t) ==
  LET Floats(ms) == NumberFloats(ms, Len(ms))
  IN  Floats(NumberFindIter(t, 1))

CoordsRaise(coords) ==
  \E i \in 1..Len(coords) : coords[i][1] = FloatError \/ coords[i][2] = FloatError

NumbersRaise(numbers) == \E i \in 1..Len(numbers) : numbers[i] = FloatError

\* float(match.group(1)) for a keyword match, default when there is no match
GroupFloat(group, default) ==
  IF default = FloatError THEN FloatError
  ELSE IF group # <<>> THEN float(group)
  ELSE default

RECURSIVE FindChar(_, _, _)
\* the first position >= i of a character of set s, 0 if there is none
FindChar(t, i, s) ==
  IF i > Len(t) THEN 0
  ELSE IF t[i] \in s THEN i
  ELSE FindChar(t, i + 1, s)

\* one alternative of QUOTED_TEXT_PATTERN at position i: an opening
\* character, one or more characters outside close, a closing character
QuotedAt(t, i, open, close) ==
  LET Group(j) == IF t[i] \in open /\ j > i + 1 THEN SubSeq(t, i + 1, j - 1) ELSE <<>>
  IN  Group(FindChar(t, i + 1, close))

\* QUOTED_TEXT_PATTERN at position i: the first non-empty group of the first
\* alternative that matches
QuotedMatchAt(t, i) ==
  OrElse(QuotedAt(t, i, {"\"", "'"}, {"\"", "'"}),
         OrElse(QuotedAt(t, i, {"\""}, {"\""}), QuotedAt(t, i, {"u300c"}, {"u300d"})))

RECURSIVE QuotedSearch(_, _)
\* QUOTED_TEXT_PATTERN.search from position pos, then the first non-empty
\* group of the match; <<>> stands for None
QuotedSearch(t, pos) ==
  IF pos > Len(t) THEN <<>>
  ELSE OrElse(QuotedMatchAt(t, pos), QuotedSearch(t, pos + 1))

extract_quoted_text(t) == QuotedSearch(t, 1)

(***************************************************************************)
(* ShapeParameterParsers.  Each returns [exc, params]: exc is TRUE when a  *)
(* float() inside the parser raises, params is the dict it returns.        *)
(***************************************************************************)
Origin == <<Num(0), Num(0)>>

_parse_generic(t) ==
  LET Params(coords) ==
        [exc    |-> CoordsRaise(coords),
         params |-> IF coords # <<>> THEN [points |-> coords] ELSE [k \in {} |-> None]]
  IN  Params(extract_coordinates(t))

\* Mutant of _parse_line: a single coordinate is kept as the start.
_parse_line_KeepsOneCoordinate(t) ==
  LET Params(coords) ==
        [exc    |-> CoordsRaise(coords),
         params |-> IF Len(coords) >= 2
                    THEN [start |-> coords[1], end |-> coords[2]]
                    ELSE [start |-> IF Len(coords) = 1 THEN coords[1] ELSE Origin,
                          end   |-> <<Num(100), Num(100)>>]]
  IN  Params(extract_coordinates(t))

\* Mutant of _parse_line: another default end point.
_parse_line_OtherDefault(t) ==
  LET Params(coords) ==
        [exc    |-> CoordsRaise(coords),
         params |-> IF Len(coords) >= 2
                    THEN [start |-> coords[1], end |-> coords[2]]
                    ELSE [start |-> Origin, end |-> <<Num(100), Num(0)>>]]
  IN  Params(extract_coordinates(t))

_parse_line(t) ==
  LET Params(coords) ==
        [exc    |-> CoordsRaise(coords),
         params |-> IF Len(coords) >= 2
                    THEN [start |-> coords[1], end |-> coords[2]]
                    ELSE [start |-> Origin, end |-> <<Num(100), Num(100)>>]]
  IN  Params(extract_coordinates(t))

_parse_circle(t) ==
  LET Params(coords, numbers, radius) ==
        [exc    |-> CoordsRaise(coords) \/ NumbersRaise(numbers) \/ radius = FloatError,
         params |-> [center |-> IF coords # <<>> THEN coords[1] ELSE Origin,
                     radius |-> radius]]
      Remaining(remaining_numbers) ==
        IF remaining_numbers # <<>> THEN remaining_numbers[1] ELSE Num(50)
      Radius(coords, numbers, radius_match) ==
        IF radius_match # <<>> THEN float(radius_match)
        ELSE IF coords # <<>> /\ Len(numbers) > 2
             THEN Remaining(SubSeq(numbers, Len(coords) * 2 + 1, Len(numbers)))
        ELSE IF coords = <<>> /\ numbers # <<>> THEN numbers[1]
        ELSE Num(50)
      Locals(coords, numbers, radius_match) ==
        Params(coords, numbers, Radius(coords, numbers, radius_match))
  IN  Locals(extract_coordinates(t), extract_numbers(t),
             OrElse(KeywordNumberSearch(t, 1, <<"r","a","d","i","u","s">>, <<>>, TRUE),
                    KeywordNumberSearch(t, 1, <<"u534a","u5f84">>, <<>>, FALSE)))

_parse_arc(t) ==
  LET Params(coords, numbers, radius, start_angle, end_angle) ==
        [exc    |-> \/ CoordsRaise(coords) \/ NumbersRaise(numbers)
                    \/ FloatError \in {radius, start_angle, end_angle},
         params |-> [center      |-> IF coords # <<>> THEN coords[1] ELSE Origin,
                     radius      |-> radius,
                     start_angle |-> start_angle,
                     end_angle   |-> end_angle]]
  IN  Params(extract_coordinates(t), extract_numbers(t),
             GroupFloat(KeywordNumberSearch(t, 1, <<"r","a","d","i","u","s">>, <<>>, TRUE),
                        Num(50)),
             GroupFloat(KeywordNumberSearch(t, 1, <<"u8d77","u59cb","u89d2">>, <<>>, FALSE),
                        GroupFloat(KeywordNumberSearch(t, 1, <<"s","t","a","r","t">>,
                                                       <<"a","n","g","l","e">>, TRUE),
                                   Num(0))),
             GroupFloat(KeywordNumberSearch(t, 1, <<"u7ec8","u6b62","u89d2">>, <<>>, FALSE),
                        GroupFloat(KeywordNumberSearch(t, 1, <<"e","n","d">>,
                                                       <<"a","n","g","l","e">>, TRUE),
                                   Num(90))))

_parse_ellipse(t) ==
  LET Params(coords, numbers, major_axis, minor_axis, rotation) ==
        [exc    |-> \/ CoordsRaise(coords) \/ NumbersRaise(numbers)
                    \/ FloatError \in {major_axis, minor_axis, rotation},
         params |-> [center     |-> IF coords # <<>> THEN coords[1] ELSE Origin,
                     major_axis |-> major_axis,
                     minor_axis |-> minor_axis,
                     rotation   |-> rotation]]
  IN  Params(extract_coordinates(t), extract_numbers(t),
             GroupFloat(KeywordNumberSearch(t, 1, <<"m","a","j","o","r">>,
                                            <<"a","x","i","s">>, TRUE), Num(100)),
             GroupFloat(KeywordNumberSearch(t, 1, <<"m","i","n","o","r">>,
                                            <<"a","x","i","s">>, TRUE), Num(50)),
             GroupFloat(KeywordNumberSearch(t, 1, <<"r","o","t","a","t","i","o","n">>,
                                            <<>>, TRUE), Num(0)))

\* Mutant of _parse_rectangle: without a height keyword the height is the
\* Chinese width, when there is one.
_parse_rectangle_DefaultsTogether(t) ==
  LET Sized(coords, numbers, width, height) ==
        [exc    |-> \/ CoordsRaise(coords) \/ NumbersRaise(numbers)
                    \/ FloatError \in {width, height},
         params |-> [corner1 |-> Origin, corner2 |-> <<width, height>>]]
      Params(coords, numbers) ==
        IF Len(coords) >= 2
        THEN [exc    |-> CoordsRaise(coords) \/ NumbersRaise(numbers),
              params |-> [corner1 |-> coords[1], corner2 |-> coords[2]]]
        ELSE Sized(coords, numbers,
                   GroupFloat(KeywordNumberSearch(t, 1, <<"u5bbd">>, <<>>, FALSE),
                              GroupFloat(KeywordNumberSearch(t, 1, <<"w","i","d","t","h">>,
                                                             <<>>, TRUE), Num(100))),
                   GroupFloat(KeywordNumberSearch(t, 1, <<"u9ad8">>, <<>>, FALSE),
                              GroupFloat(KeywordNumberSearch(t, 1, <<"h","e","i","g","h","t">>,
                                                             <<>>, TRUE),
                                         GroupFloat(KeywordNumberSearch(t, 1, <<"u5bbd">>,
                                                                        <<>>, FALSE),
                                                    Num(50)))))
  IN  Params(extract_coordinates(t), extract_numbers(t))

_parse_rectangle(t) ==
  LET Sized(coords, numbers, width, height) ==
        [exc    |-> \/ CoordsRaise(coords) \/ NumbersRaise(numbers)
                    \/ FloatError \in {width, height},
         params |-> [corner1 |-> Origin, corner2 |-> <<width, height>>]]
      Params(coords, numbers) ==
        IF Len(coords) >= 2
        THEN [exc    |-> CoordsRaise(coords) \/ NumbersRaise(numbers),
              params |-> [corner1 |-> coords[1], corner2 |-> coords[2]]]
        ELSE Sized(coords, numbers,
                   GroupFloat(KeywordNumberSearch(t, 1, <<"u5bbd">>, <<>>, FALSE),
                              GroupFloat(KeywordNumberSearch(t, 1, <<"w","i","d","t","h">>,
                                                             <<>>, TRUE), Num(100))),
                   GroupFloat(KeywordNumberSearch(t, 1, <<"u9ad8">>, <<>>, FALSE),
                              GroupFloat(KeywordNumberSearch(t, 1, <<"h","e","i","g","h","t">>,
                                                             <<>>, TRUE), Num(50))))
  IN  Params(extract_coordinates(t), extract_numbers(t))

\* Mutant of _parse_polyline: the default polyline is never closed.
_parse_polyline_OpenDefault(t) ==
  LET Params(coords, closed) ==
        [exc    |-> CoordsRaise(coords),
         params |-> [points |-> IF Len(coords) >= 2 THEN coords
                                ELSE <<Origin, <<Num(50), Num(50)>>, <<Num(100), Num(0)>>>>,
                     closed |-> closed /\ Len(coords) >= 2]]
      Closed(text_lower) ==
        \E kw \in {<<"c","l","o","s","e","d">>, <<"c","l","o","s","e">>,
                   <<"u95ed","u5408">>, <<"u5c01","u95ed">>} :
          Contains(text_lower, kw, 1)
  IN  Params(extract_coordinates(t), Closed(Lower(t)))

_parse_polyline(t) ==
  LET Params(coords, closed) ==
        [exc    |-> CoordsRaise(coords),
         params |-> [points |-> IF Len(coords) >= 2 THEN coords
                                ELSE <<Origin, <<Num(50), Num(50)>>, <<Num(100), Num(0)>>>>,
                     closed |-> closed]]
      Closed(text_lower) ==
        \E kw \in {<<"c","l","o","s","e","d">>, <<"c","l","o","s","e">>,
                   <<"u95ed","u5408">>, <<"u5c01","u95ed">>} :
          Contains(text_lower, kw, 1)
  IN  Params(extract_coordinates(t), Closed(Lower(t)))

\* Mutant of _parse_text: the English height keyword is looked up last.
_parse_text_EnglishWins(t) ==
  LET Params(coords, content, height, rotation) ==
        [exc    |-> CoordsRaise(coords) \/ FloatError \in {height, rotation},
         params |-> [position |-> IF coords # <<>> THEN coords[1] ELSE Origin,
                     text     |-> content,
                     height   |-> height,
                     rotation |-> rotation]]
  IN  Params(extract_coordinates(t),
             OrElse(extract_quoted_text(t), <<"T","e","x","t">>),
             GroupFloat(KeywordNumberSearch(t, 1, <<"h","e","i","g","h","t">>, <<>>, TRUE),
                        GroupFloat(KeywordNumberSearch(t, 1, <<"u9ad8","u5ea6">>,
                                                       <<>>, FALSE), [m |-> 25, e |-> 1])),
             GroupFloat(KeywordNumberSearch(t, 1, <<"r","o","t","a","t","i","o","n">>,
                                            <<>>, TRUE), Num(0)))

_parse_text(t) ==
  LET Params(coords, content, height, rotation) ==
        [exc    |-> CoordsRaise(coords) \/ FloatError \in {height, rotation},
         params |-> [position |-> IF coords # <<>> THEN coords[1] ELSE Origin,
                     text     |-> content,
                     height   |-> height,
                     rotation |-> rotation]]
  IN  Params(extract_coordinates(t),
             OrElse(extract_quoted_text(t), <<"T","e","x","t">>),
             GroupFloat(KeywordNumberSearch(t, 1, <<"u9ad8","u5ea6">>, <<>>, FALSE),
                        GroupFloat(KeywordNumberSearch(t, 1, <<"h","e","i","g","h","t">>,
                                                       <<>>, TRUE), [m |-> 25, e |-> 1])),
             GroupFloat(KeywordNumberSearch(t, 1, <<"r","o","t","a","t","i","o","n">>,
                                            <<>>, TRUE), Num(0)))

\* Mutant of _parse_dimension: the text position is the midpoint itself.
_parse_dimension_AtMidpoint(t) ==
  LET Params(coords) ==
        [exc    |-> CoordsRaise(coords),
         params |-> IF Len(coords) >= 2
                    THEN [start |-> coords[1], end |-> coords[2],
                          text_position |->
                            IF Len(coords) < 3
                            THEN <<FloatHalf(FloatAdd(coords[1][1], coords[2][1])),
                                   FloatHalf(FloatAdd(coords[1][2], coords[2][2]))>>
                            ELSE coords[3]]
                    ELSE [start |-> Origin, end |-> <<Num(100), Num(0)>>,
                          text_position |-> <<Num(50), Num(10)>>]]
  IN  Params(extract_coordinates(t))

_parse_dimension(t) ==
  LET Params(coords) ==
        [exc    |-> CoordsRaise(coords),
         params |-> IF Len(coords) >= 2
                    THEN [start |-> coords[1], end |-> coords[2],
                          text_position |->
                            IF Len(coords) < 3
                            THEN <<FloatHalf(FloatAdd(coords[1][1], coords[2][1])),
                                   FloatAdd(FloatHalf(FloatAdd(coords[1][2], coords[2][2])),
                                            Num(10))>>
                            ELSE coords[3]]
                    ELSE [start |-> Origin, end |-> <<Num(100), Num(0)>>,
                          text_position |-> <<Num(50), Num(10)>>]]
  IN  Params(extract_coordinates(t))

\* \w: a letter, digit or underscore; of the characters of this model, every
\* one but white space and the punctuation below
IsWord(c) ==
  /\ ~IsSpace(c)
  /\ c \notin {"(", ")", ",", ".", "-", "+", "=", ":", "\"", "'", "u300c", "u300d"}

RECURSIVE WordEnd(_, _)
\* \w* from position i: the position after the last word character taken
WordEnd(t, i) == IF i <= Len(t) /\ IsWord(t[i]) THEN WordEnd(t, i + 1) ELSE i

\* str.upper() on one character; U+017F upper-cases to "S"
UpperChar(c) ==
  IF c = "u017f" THEN "S"
  ELSE IF \E u \in DOMAIN UpperToLower : UpperToLower[u] = c
       THEN CHOOSE u \in DOMAIN UpperToLower : UpperToLower[u] = c
  ELSE c

RECURSIVE UpperPrefix(_, _)
\* str.upper() of the first n characters of t
UpperPrefix(t, n) ==
  IF n = 0 THEN <<>> ELSE Append(UpperPrefix(t, n - 1), UpperChar(t[n]))

\* pattern \s* [=:]? \s* (\w+), re.IGNORECASE, at position i: the group
PatternNameAt(t, i) ==
  LET Group(p2, e) == IF e > p2 THEN SubSeq(t, p2, e - 1) ELSE <<>>
      Name(p2) == Group(p2, WordEnd(t, p2))
      Separator(p0) ==
        Name(SkipSpaces(t, IF p0 <= Len(t) /\ t[p0] \in {"=", ":"} THEN p0 + 1 ELSE p0))
  IN  IF LiteralAt(t, i, <<"p","a","t","t","e","r","n">>, TRUE)
      THEN Separator(SkipSpaces(t, i + 7))
      ELSE <<>>

RECURSIVE PatternNameSearch(_, _)
PatternNameSearch(t, pos) ==
  IF pos > Len(t) THEN <<>>
  ELSE OrElse(PatternNameAt(t, pos), PatternNameSearch(t, pos + 1))

\* Mutant of _parse_hatch: the pattern name is stored as written.
_parse_hatch_NameAsWritten(t) ==
  LET Params(coords, name, pattern_scale) ==
        [exc    |-> CoordsRaise(coords) \/ pattern_scale = FloatError,
         params |-> [boundary_points |->
                       IF Len(coords) >= 3 THEN coords
                       ELSE <<Origin, <<Num(100), Num(0)>>, <<Num(100), Num(100)>>,
                              <<Num(0), Num(100)>>>>,
                     pattern_name  |-> IF name # <<>> THEN name
                                       ELSE <<"S","O","L","I","D">>,
                     pattern_scale |-> pattern_scale]]
  IN  Params(extract_coordinates(t), PatternNameSearch(t, 1),
             GroupFloat(KeywordNumberSearch(t, 1, <<"s","c","a","l","e">>, <<>>, TRUE),
                        Num(1)))

_parse_hatch(t) ==
  LET Params(coords, name, pattern_scale) ==
        [exc    |-> CoordsRaise(coords) \/ pattern_scale = FloatError,
         params |-> [boundary_points |->
                       IF Len(coords) >= 3 THEN coords
                       ELSE <<Origin, <<Num(100), Num(0)>>, <<Num(100), Num(100)>>,
                              <<Num(0), Num(100)>>>>,
                     pattern_name  |-> IF name # <<>> THEN UpperPrefix(name, Len(name))
                                       ELSE <<"S","O","L","I","D">>,
                     pattern_scale |-> pattern_scale]]
  IN  Params(extract_coordinates(t), PatternNameSearch(t, 1),
             GroupFloat(KeywordNumberSearch(t, 1, <<"s","c","a","l","e">>, <<>>, TRUE),
                        Num(1)))

RECURSIVE LastDwg(_, _, _)
\* the last position k in lo..hi where ".dwg" stands (ignoring case), 0 if none
LastDwg(t, lo, hi) ==
  IF hi < lo THEN 0
  ELSE IF LiteralAt(t, hi, <<".","d","w","g">>, TRUE) THEN hi
  ELSE LastDwg(t, lo, hi - 1)

RECURSIVE DwgSearch(_, _)
\* re.search(r"(\S+\.dwg)", text, re.IGNORECASE) from position pos: group(1).
\* \S+ takes the run of non-space characters and gives back up to the last
\* ".dwg" that has at least one character before it.
DwgSearch(t, pos) ==
  LET Group(k) == IF ~IsSpace(t[pos]) /\ k # 0 THEN SubSeq(t, pos, k + 3)
                  ELSE DwgSearch(t, pos + 1)
      Run(run) == Group(LastDwg(t, pos + 1, run - 3))
      Space(sp) == Run(IF sp = 0 THEN Len(t) ELSE sp - 1)
  IN  IF pos > Len(t) THEN <<>> ELSE Space(FindChar(t, pos, {" ", "\t", "\n"}))

_parse_save(t) ==
  [exc    |-> FALSE,
   params |-> [file_path |-> OrElse(OrElse(extract_quoted_text(t), DwgSearch(t, 1)),
                                    <<"d","r","a","w","i","n","g",".","d","w","g">>)]]

(***************************************************************************)
(* CommandParser.                                                          *)
(***************************************************************************)
\* the dataclass constructor
ParsedCommand(action, shape, parameters, raw_text, confidence) ==
  [action |-> action, shape |-> shape, parameters |-> parameters,
   raw_text |-> raw_text, confidence |-> confidence]

\* Mutant of Dispatch: no parser is registered for dimension.
Dispatch_NoDimensionParser(shape, t) ==
  CASE shape = "generic"   -> _parse_generic(t)
    [] shape = "line"      -> _parse_line(t)
    [] shape = "circle"    -> _parse_circle(t)
    [] shape = "arc"       -> _parse_arc(t)
    [] shape = "ellipse"   -> _parse_ellipse(t)
    [] shape = "rectangle" -> _parse_rectangle(t)
    [] shape = "polyline"  -> _parse_polyline(t)
    [] shape = "text"      -> _parse_text(t)
    [] shape = "hatch"     -> _parse_hatch(t)
    [] shape = "save"      -> _parse_save(t)
    [] OTHER               -> _parse_generic(t)

\* getattr(self, f"_parse_{shape}", None), then the call of the method found
\* or of _parse_generic
Dispatch(shape, t) ==
  CASE shape = "generic"   -> _parse_generic(t)
    [] shape = "line"      -> _parse_line(t)
    [] shape = "circle"    -> _parse_circle(t)
    [] shape = "arc"       -> _parse_arc(t)
    [] shape = "ellipse"   -> _parse_ellipse(t)
    [] shape = "rectangle" -> _parse_rectangle(t)
    [] shape = "polyline"  -> _parse_polyline(t)
    [] shape = "text"      -> _parse_text(t)
    [] shape = "dimension" -> _parse_dimension(t)
    [] shape = "hatch"     -> _parse_hatch(t)
    [] shape = "save"      -> _parse_save(t)
    [] OTHER               -> _parse_generic(t)

\* params["color"] = color
SetColor(params, color) == ("color" :> color) @@ params

\* Mutant of Confidence: the confidence follows the colour alone.
Confidence_ByColor(params) ==
  IF "color" \in DOMAIN params THEN [m |-> 8, e |-> 1] ELSE [m |-> 5, e |-> 1]

\* confidence=0.8 if params else 0.5
Confidence(params) ==
  IF DOMAIN params # {} THEN [m |-> 8, e |-> 1] ELSE [m |-> 5, e |-> 1]

\* Mutant of OrDraw: the fallback to "draw" is missing.
OrDraw_Missing(x) == x

\* x or "draw"
OrDraw(x) == IF x = None THEN "draw" ELSE x

\* Mutant of parse_command: the colour is merged before the shape is looked at.
parse_command_ColorFirst(t) ==
  LET Return(action, shape, exc, params) ==
        [exc |-> exc,
         ret |-> ParsedCommand(action, shape, params, t,
                               IF shape = None THEN [m |-> 3, e |-> 1]
                               ELSE Confidence(params))]
      Colored(action, shape, exc, base, color) ==
        Return(action, shape, exc, IF color # NoColor THEN SetColor(base, color) ELSE base)
      Parsed(action, shape, p) ==
        IF shape = None
        THEN Colored(action, None, FALSE, [k \in {} |-> None], extract_color(t))
        ELSE Colored(action, shape, p.exc, p.params, extract_color(t))
      Shaped(action, shape) == Parsed(action, shape, Dispatch(shape, t))
  IN  Shaped(OrDraw(identify_action(t)), identify_shape(t))

\* Mutant of parse_command: a save command bypasses the shape dispatch and
\* gets the parameters of _parse_save.
parse_command_SaveByAction(t) ==
  LET Return(action, shape, p, params) ==
        [exc |-> p.exc,
         ret |-> ParsedCommand(action, shape, params, t, Confidence(params))]
      Colored(action, shape, p, color) ==
        Return(action, shape, p,
               IF color # NoColor THEN SetColor(p.params, color) ELSE p.params)
      Shaped(action, shape) ==
        IF action = "save"
        THEN Return(action, None, _parse_save(t), _parse_save(t).params)
        ELSE IF shape = None
        THEN [exc |-> FALSE,
              ret |-> ParsedCommand(action, None, [k \in {} |-> None], t,
                                    [m |-> 3, e |-> 1])]
        ELSE Colored(action, shape, Dispatch(shape, t), extract_color(t))
  IN  Shaped(OrDraw(identify_action(t)), identify_shape(t))

\* parse_command(text): [exc, ret], exc TRUE when the call raises, ret the
\* ParsedCommand it returns otherwise
parse_command(t) ==
  LET Return(action, shape, p, params) ==
        [exc |-> p.exc,
         ret |-> ParsedCommand(action, shape, params, t, Confidence(params))]
      Colored(action, shape, p, color) ==
        Return(action, shape, p,
               IF color # NoColor THEN SetColor(p.params, color) ELSE p.params)
      Shaped(action, shape) ==
        IF shape = None
        THEN [exc |-> FALSE,
              ret |-> ParsedCommand(action, None, [k \in {} |-> None], t,
                                    [m |-> 3, e |-> 1])]
        ELSE Colored(action, shape, Dispatch(shape, t), extract_color(t))
  IN  Shaped(OrDraw(identify_action(t)), identify_shape(t))

(***************************************************************************)
(* CADController.  h is the host: whether pywin32 can be imported and what *)
(* the CAD application answers over COM.  c is the CADService object with  *)
(* the fields of its controller and of its DrawingState.  A method returns *)
(* [exc, ret, cad, host]: the exception it raises or None, what it         *)
(* returns, and the service and the host after the call.                   *)
(***************************************************************************)
\* the module global cad_service before get_cad_service() has created it
NoService == [k \in {} |-> None]

\* what a reply holds in place of a return value when the call raised
NoResult == [k \in {} |-> None]

Raise(c, h, e) == [exc |-> e, ret |-> NoResult, cad |-> c, host |-> h]

Return(c, h, r) == [exc |-> None, ret |-> r, cad |-> c, host |-> h]

\* {"success": False, "error": msg}
ErrorResult(msg) == [success |-> FALSE, error |-> msg]

\* str(e) of an exception a COM call raised
ComError == "com_error"

RECURSIVE Join(_)
\* the str of a sequence of characters
Join(s) == IF s = <<>> THEN "" ELSE Head(s) \o Join(Tail(s))

\* CADService.__init__: load_config(), CADController(config.cad),
\* NLPProcessor(), DrawingState()
NewService(cad_type) ==
  [config_type |-> cad_type, app |-> FALSE, doc |-> FALSE, model_space |-> FALSE,
   _com_initialized |-> FALSE, _initialized |-> FALSE,
   entities |-> <<>>, last_command |-> <<>>, last_result |-> ""]

\* DrawingState.to_dict of the service's state
to_dict(c) ==
  [entities |-> c.entities, current_layer |-> "0", last_command |-> c.last_command,
   last_result |-> c.last_result, entity_count |-> Len(c.entities)]

\* CADController._init_com: a failing import of pythoncom is logged only
_init_com(c, h) ==
  IF c._com_initialized \/ ~h.win32com THEN c ELSE [c EXCEPT !._com_initialized = TRUE]

\* CADController.is_running
is_running(c, h) == c.app /\ h.cad = "running"

\* CADController.start
controller_start(c, h) ==
  LET Document(c1, h1) ==
        IF h1.docs = "no_count" THEN Return(c1, h1, FALSE)
        ELSE IF h1.docs = "no_model_space" THEN Return([c1 EXCEPT !.doc = TRUE], h1, FALSE)
        ELSE Return([c1 EXCEPT !.doc = TRUE, !.model_space = TRUE], h1, TRUE)
      Connect(c1) ==
        IF c1.config_type \notin {"AUTOCAD", "GCAD", "ZWCAD"} THEN Return(c1, h, FALSE)
        ELSE IF h.cad = "running" THEN Document([c1 EXCEPT !.app = TRUE], h)
        ELSE IF h.cad = "startable"
             THEN Document([c1 EXCEPT !.app = TRUE], [h EXCEPT !.cad = "running"])
        ELSE Return(c1, h, FALSE)
      Import(c1) ==
        IF ~h.win32com THEN Raise(c1, h, "ModuleNotFoundError") ELSE Connect(c1)
  IN  Import(_init_com(c, h))

\* _ensure_3d_point raises ValueError
PointRaises(point) == Len(point) < 2

\* _ensure_3d_point
_ensure_3d_point(point) ==
  IF Len(point) = 2 THEN <<point[1], point[2], Num(0)>>
  ELSE <<point[1], point[2], point[3]>>

\* str(e) of the ValueError of _ensure_3d_point
InvalidPoint == "Invalid point. Expected 2 or 3 coordinates."

\* the COM calls of a draw method go through: the application answers and
\* accepts the entity
ComDraws(h) == h.cad = "running" /\ h.com # "fails"

\* CADController.draw_line
controller_draw_line(c, h, start, end, layer, color, lineweight) ==
  IF ~c.model_space THEN ErrorResult("CAD not initialized")
  ELSE IF PointRaises(start) \/ PointRaises(end) THEN ErrorResult(InvalidPoint)
  ELSE IF ~ComDraws(h) THEN ErrorResult(ComError)
  ELSE [success |-> TRUE, type |-> "line",
        start |-> _ensure_3d_point(start), end |-> _ensure_3d_point(end)]

\* CADController.draw_circle
controller_draw_circle(c, h, center, radius, layer, color, lineweight) ==
  IF ~c.model_space THEN ErrorResult("CAD not initialized")
  ELSE IF PointRaises(center) THEN ErrorResult(InvalidPoint)
  ELSE IF ~ComDraws(h) THEN ErrorResult(ComError)
  ELSE [success |-> TRUE, type |-> "circle",
        center |-> _ensure_3d_point(center), radius |-> radius]

\* CADController.draw_arc
controller_draw_arc(c, h, center, radius, start_angle, end_angle, layer, color, lineweight) ==
  IF ~c.model_space THEN ErrorResult("CAD not initialized")
  ELSE IF PointRaises(center) THEN ErrorResult(InvalidPoint)
  ELSE IF ~ComDraws(h) THEN ErrorResult(ComError)
  ELSE [success |-> TRUE, type |-> "arc", center |-> _ensure_3d_point(center),
        radius |-> radius, start_angle |-> start_angle, end_angle |-> end_angle]

\* CADController.draw_ellipse
controller_draw_ellipse(c, h, center, major_axis, minor_axis, rotation, layer, color, lineweight) ==
  IF ~c.model_space THEN ErrorResult("CAD not initialized")
  ELSE IF PointRaises(center) THEN ErrorResult(InvalidPoint)
  ELSE IF major_axis.m <= 0 THEN ErrorResult("major_axis must be positive")
  ELSE IF minor_axis.m < 0 THEN ErrorResult("minor_axis must be non-negative")
  ELSE IF ~ComDraws(h) THEN ErrorResult(ComError)
  ELSE [success |-> TRUE, type |-> "ellipse", center |-> _ensure_3d_point(center),
        major_axis |-> major_axis, minor_axis |-> minor_axis, rotation |-> rotation]

\* CADController.draw_polyline
controller_draw_polyline(c, h, points, closed, layer, color, lineweight) ==
  IF ~c.model_space THEN ErrorResult("CAD not initialized")
  ELSE IF Len(points) < 2 THEN ErrorResult("Polyline requires at least 2 points")
  ELSE IF \E i \in 1..Len(points) : PointRaises(points[i]) THEN ErrorResult(InvalidPoint)
  ELSE IF ~ComDraws(h) THEN ErrorResult(ComError)
  ELSE [success |-> TRUE, type |-> "polyline",
        points |-> [i \in 1..Len(points) |-> _ensure_3d_point(points[i])],
        closed |-> closed]

\* CADController.draw_rectangle: _ensure_3d_point is called outside any try
controller_draw_rectangle(c, h, corner1, corner2, layer, color, lineweight) ==
  LET Corners(c1, c2) ==
        <<c1, <<c2[1], c1[2], c1[3]>>, c2, <<c1[1], c2[2], c2[3]>>>>
      Result(c1, c2, result) ==
        IF result.success
        THEN [result EXCEPT !.type = "rectangle"] @@ [corner1 |-> c1, corner2 |-> c2]
        ELSE result
      Drawn(c1, c2) ==
        Result(c1, c2, controller_draw_polyline(c, h, Corners(c1, c2), TRUE, layer, color,
                                                lineweight))
  IN  [exc |-> IF PointRaises(corner1) \/ PointRaises(corner2) THEN "ValueError" ELSE None,
       ret |-> IF PointRaises(corner1) \/ PointRaises(corner2) THEN NoResult
               ELSE Drawn(_ensure_3d_point(corner1), _ensure_3d_point(corner2))]

\* CADController.draw_text
controller_draw_text(c, h, position, content, height, rotation, layer, color) ==
  IF ~c.model_space THEN ErrorResult("CAD not initialized")
  ELSE IF PointRaises(position) THEN ErrorResult(InvalidPoint)
  ELSE IF ~ComDraws(h) THEN ErrorResult(ComError)
  ELSE [success |-> TRUE, type |-> "text", position |-> _ensure_3d_point(position),
        text |-> content, height |-> height, rotation |-> rotation]

\* CADController.draw_hatch
controller_draw_hatch(c, h, boundary_points, pattern_name, pattern_scale, layer, color) ==
  LET Hatched(boundary_result) ==
        IF ~boundary_result.success THEN boundary_result
        ELSE IF h.com = "hatch_fails" THEN ErrorResult(ComError)
        ELSE [success |-> TRUE, type |-> "hatch", pattern |-> pattern_name,
              scale |-> pattern_scale]
  IN  IF ~c.model_space THEN ErrorResult("CAD not initialized")
      ELSE IF Len(boundary_points) < 3
           THEN ErrorResult("Hatch requires at least 3 boundary points")
      ELSE Hatched(controller_draw_polyline(c, h, boundary_points, TRUE, <<>>, <<>>, <<>>))

\* CADController.add_dimension
controller_add_dimension(c, h, start, end, text_position, layer, color) ==
  IF ~c.model_space THEN ErrorResult("CAD not initialized")
  ELSE IF PointRaises(start) \/ PointRaises(end) \/ PointRaises(text_position)
       THEN ErrorResult(InvalidPoint)
  ELSE IF ~ComDraws(h) THEN ErrorResult(ComError)
  ELSE [success |-> TRUE, type |-> "dimension", start |-> _ensure_3d_point(start),
        end |-> _ensure_3d_point(end), text_position |-> _ensure_3d_point(text_position)]

\* CADController.save_drawing
controller_save_drawing(c, h, file_path) ==
  IF ~c.doc THEN ErrorResult("No document to save")
  ELSE IF ~ComDraws(h) THEN ErrorResult(ComError)
  ELSE [success |-> TRUE, file_path |-> file_path]

(***************************************************************************)
(* CADService.  An optional argument is <<>> when it is None or left out   *)
(* and <<v>> when it is given.                                             *)
(***************************************************************************)
\* CADService.ensure_initialized
ensure_initialized(c, h) ==
  LET Started(s) ==
        IF s.exc # None \/ ~s.ret THEN s
        ELSE Return([s.cad EXCEPT !._initialized = TRUE], s.host, TRUE)
  IN  IF c._initialized /\ is_running(c, h) THEN Return(c, h, TRUE)
      ELSE Started(controller_start(c, h))

\* color is not None and (color < 0 or color > 255)
BadColor(color) == color # <<>> /\ (color[1] < 0 \/ color[1] > 255)

\* add_entity outside the test of result["success"]
Recorded_FailuresToo(c, h, result, command) ==
  Return(IF result.success
         THEN [c EXCEPT !.entities = Append(@, result),
                        !.last_command = command,
                        !.last_result = "success"]
         ELSE [c EXCEPT !.entities = Append(@, result)],
         h, result)

\* if result["success"]: self.state.add_entity(result); self.state.last_command
\* = ...; self.state.last_result = "success"; then return result
Recorded(c, h, result, command) ==
  Return(IF result.success
         THEN [c EXCEPT !.entities = Append(@, result),
                        !.last_command = command,
                        !.last_result = "success"]
         ELSE c,
         h, result)

\* CADService.draw_line
draw_line(c, h, start, end, layer, color, lineweight) ==
  LET Ready(i) ==
        IF i.exc # None THEN i
        ELSE IF ~i.ret THEN Return(i.cad, i.host, ErrorResult("CAD not initialized"))
        ELSE IF BadColor(color)
             THEN Return(i.cad, i.host, ErrorResult("Color must be between 0 and 255"))
        ELSE Recorded(i.cad, i.host,
                      controller_draw_line(i.cad, i.host, start, end, layer, color, lineweight),
                      <<"draw_line", start, end>>)
  IN  IF Len(start) < 2 \/ Len(end) < 2
      THEN Return(c, h, ErrorResult("Coordinates must have at least 2 values"))
      ELSE Ready(ensure_initialized(c, h))

\* CADService.draw_circle
draw_circle(c, h, center, radius, layer, color, lineweight) ==
  LET Ready(i) ==
        IF i.exc # None THEN i
        ELSE IF ~i.ret THEN Return(i.cad, i.host, ErrorResult("CAD not initialized"))
        ELSE IF BadColor(color)
             THEN Return(i.cad, i.host, ErrorResult("Color must be between 0 and 255"))
        ELSE Recorded(i.cad, i.host,
                      controller_draw_circle(i.cad, i.host, center, radius, layer, color, lineweight),
                      <<"draw_circle", center, radius>>)
  IN  IF Len(center) < 2
      THEN Return(c, h, ErrorResult("Center must have at least 2 coordinates"))
      ELSE IF radius.m <= 0
      THEN Return(c, h, ErrorResult("Radius must be positive"))
      ELSE Ready(ensure_initialized(c, h))

\* CADService.draw_arc
draw_arc(c, h, center, radius, start_angle, end_angle, layer, color, lineweight) ==
  LET Ready(i) ==
        IF i.exc # None THEN i
        ELSE IF ~i.ret THEN Return(i.cad, i.host, ErrorResult("CAD not initialized"))
        ELSE IF BadColor(color)
             THEN Return(i.cad, i.host, ErrorResult("Color must be between 0 and 255"))
        ELSE Recorded(i.cad, i.host,
                      controller_draw_arc(i.cad, i.host, center, radius, start_angle, end_angle, layer,
                                          color, lineweight),
                      <<"draw_arc", center, radius, start_angle, end_angle>>)
  IN  IF Len(center) < 2
      THEN Return(c, h, ErrorResult("Center must have at least 2 coordinates"))
      ELSE IF radius.m <= 0
      THEN Return(c, h, ErrorResult("Radius must be positive"))
      ELSE Ready(ensure_initialized(c, h))

\* CADService.draw_ellipse
draw_ellipse(c, h, center, major_axis, minor_axis, rotation, layer, color, lineweight) ==
  LET Ready(i) ==
        IF i.exc # None THEN i
        ELSE IF ~i.ret THEN Return(i.cad, i.host, ErrorResult("CAD not initialized"))
        ELSE IF BadColor(color)
             THEN Return(i.cad, i.host, ErrorResult("Color must be between 0 and 255"))
        ELSE Recorded(i.cad, i.host,
                      controller_draw_ellipse(i.cad, i.host, center, major_axis, minor_axis,
                                              rotation, layer, color, lineweight),
                      <<"draw_ellipse", center, major_axis, minor_axis>>)
  IN  IF Len(center) < 2
      THEN Return(c, h, ErrorResult("Center must have at least 2 coordinates"))
      ELSE IF major_axis.m <= 0
      THEN Return(c, h, ErrorResult("Major axis must be positive"))
      ELSE IF minor_axis.m < 0
      THEN Return(c, h, ErrorResult("Minor axis must be non-negative"))
      ELSE Ready(ensure_initialized(c, h))

\* for i, pt in enumerate(points): if len(pt) < 2: the error message for the
\* first such point, "" when every point has 2 coordinates
ShortPoint(points) ==
  LET First(is) ==
        IF is = {} THEN ""
        ELSE "Point " \o ToString((CHOOSE i \in is : \A j \in is : i <= j) - 1)
                      \o " must have at least 2 coordinates"
  IN  First({i \in 1..Len(points) : Len(points[i]) < 2})

\* CADService.draw_polyline
draw_polyline(c, h, points, closed, layer, color, lineweight) ==
  LET Ready(i) ==
        IF i.exc # None THEN i
        ELSE IF ~i.ret THEN Return(i.cad, i.host, ErrorResult("CAD not initialized"))
        ELSE IF BadColor(color)
             THEN Return(i.cad, i.host, ErrorResult("Color must be between 0 and 255"))
        ELSE Recorded(i.cad, i.host,
                      controller_draw_polyline(i.cad, i.host, points, closed, layer, color,
                                               lineweight),
                      <<"draw_polyline", Len(points), closed>>)
  IN  IF Len(points) < 2
      THEN Return(c, h, ErrorResult("Polyline requires at least 2 points"))
      ELSE IF ShortPoint(points) # ""
      THEN Return(c, h, ErrorResult(ShortPoint(points)))
      ELSE Ready(ensure_initialized(c, h))

\* CADService.draw_rectangle
draw_rectangle(c, h, corner1, corner2, layer, color, lineweight) ==
  LET Drawn(i, r) ==
        IF r.exc # None THEN Raise(i.cad, i.host, r.exc)
        ELSE Recorded(i.cad, i.host, r.ret, <<"draw_rectangle", corner1, corner2>>)
      Ready(i) ==
        IF i.exc # None THEN i
        ELSE IF ~i.ret THEN Return(i.cad, i.host, ErrorResult("CAD not initialized"))
        ELSE IF BadColor(color)
             THEN Return(i.cad, i.host, ErrorResult("Color must be between 0 and 255"))
        ELSE Drawn(i, controller_draw_rectangle(i.cad, i.host, corner1, corner2, layer,
                                                color, lineweight))
  IN  IF Len(corner1) < 2 \/ Len(corner2) < 2
      THEN Return(c, h, ErrorResult("Corners must have at least 2 coordinates"))
      ELSE Ready(ensure_initialized(c, h))

\* CADService.draw_text
draw_text(c, h, position, content, height, rotation, layer, color) ==
  LET Ready(i) ==
        IF i.exc # None THEN i
        ELSE IF ~i.ret THEN Return(i.cad, i.host, ErrorResult("CAD not initialized"))
        ELSE IF BadColor(color)
             THEN Return(i.cad, i.host, ErrorResult("Color must be between 0 and 255"))
        ELSE Recorded(i.cad, i.host,
                      controller_draw_text(i.cad, i.host, position, content, height, rotation,
                                           layer, color),
                      <<"draw_text", content>>)
  IN  IF Len(position) < 2
      THEN Return(c, h, ErrorResult("Position must have at least 2 coordinates"))
      ELSE IF content = <<>>
      THEN Return(c, h, ErrorResult("Text cannot be empty"))
      ELSE IF height.m <= 0
      THEN Return(c, h, ErrorResult("Height must be positive"))
      ELSE Ready(ensure_initialized(c, h))

\* CADService.draw_hatch
draw_hatch(c, h, boundary_points, pattern_name, pattern_scale, layer, color) ==
  LET Ready(i) ==
        IF i.exc # None THEN i
        ELSE IF ~i.ret THEN Return(i.cad, i.host, ErrorResult("CAD not initialized"))
        ELSE IF BadColor(color)
             THEN Return(i.cad, i.host, ErrorResult("Color must be between 0 and 255"))
        ELSE Recorded(i.cad, i.host,
                      controller_draw_hatch(i.cad, i.host, boundary_points, pattern_name,
                                            pattern_scale, layer, color),
                      <<"draw_hatch", pattern_name>>)
  IN  IF Len(boundary_points) < 3
      THEN Return(c, h, ErrorResult("Hatch requires at least 3 boundary points"))
      ELSE IF ShortPoint(boundary_points) # ""
      THEN Return(c, h, ErrorResult(ShortPoint(boundary_points)))
      ELSE IF pattern_name = <<>>
      THEN Return(c, h, ErrorResult("Pattern name cannot be empty"))
      ELSE IF pattern_scale.m <= 0
      THEN Return(c, h, ErrorResult("Pattern scale must be positive"))
      ELSE Ready(ensure_initialized(c, h))

\* CADService.add_dimension
add_dimension(c, h, start, end, text_position, layer, color) ==
  LET Ready(i) ==
        IF i.exc # None THEN i
        ELSE IF ~i.ret THEN Return(i.cad, i.host, ErrorResult("CAD not initialized"))
        ELSE IF BadColor(color)
             THEN Return(i.cad, i.host, ErrorResult("Color must be between 0 and 255"))
        ELSE Recorded(i.cad, i.host,
                      controller_add_dimension(i.cad, i.host, start, end, text_position, layer,
                                               color),
                      <<"add_dimension", start, end>>)
  IN  IF Len(start) < 2 \/ Len(end) < 2 \/ Len(text_position) < 2
      THEN Return(c, h, ErrorResult("All points must have at least 2 coordinates"))
      ELSE Ready(ensure_initialized(c, h))

\* CADService.save_drawing
save_drawing(c, h, file_path) ==
  LET Saved(c1, h1, result) ==
        Return(IF result.success
               THEN [c1 EXCEPT !.last_command = <<"save_drawing", file_path>>,
                               !.last_result = "success"]
               ELSE c1,
               h1, result)
      Ready(i) ==
        IF i.exc # None THEN i
        ELSE IF ~i.ret THEN Return(i.cad, i.host, ErrorResult("CAD not initialized"))
        ELSE Saved(i.cad, i.host, controller_save_drawing(i.cad, i.host, file_path))
  IN  IF file_path = <<>> THEN Return(c, h, ErrorResult("File path cannot be empty"))
      ELSE IF \A k \in 1..Len(file_path) : IsSpace(file_path[k])
           THEN Return(c, h, ErrorResult("File path cannot be whitespace"))
      ELSE Ready(ensure_initialized(c, h))

\* params.get(key, default)
Get(params, key, default) == IF key \in DOMAIN params THEN params[key] ELSE default

\* params.get(key) handed on as an optional argument
Opt(params, key) == IF key \in DOMAIN params THEN <<params[key]>> ELSE <<>>

\* the action "save" saves the drawing whatever the shape
process_natural_language_SaveByAction(c, h, command) ==
  LET Handler(c1, shape, params) ==
        CASE shape = "line"      ->
               draw_line(c1, h, Get(params, "start", <<Num(0), Num(0)>>),
               Get(params, "end", <<Num(100), Num(100)>>), <<>>, Opt(params, "color"), <<>>)
          [] shape = "circle"    ->
               draw_circle(c1, h, Get(params, "center", <<Num(0), Num(0)>>),
               Get(params, "radius", Num(50)), <<>>, Opt(params, "color"), <<>>)
          [] shape = "arc"       ->
               draw_arc(c1, h, Get(params, "center", <<Num(0), Num(0)>>), Get(params, "radius", Num(50)),
               Get(params, "start_angle", Num(0)), Get(params, "end_angle", Num(90)),
               <<>>, Opt(params, "color"), <<>>)
          [] shape = "ellipse"   ->
               draw_ellipse(c1, h, Get(params, "center", <<Num(0), Num(0)>>),
               Get(params, "major_axis", Num(100)), Get(params, "minor_axis", Num(50)),
               Get(params, "rotation", Num(0)), <<>>, Opt(params, "color"), <<>>)
          [] shape = "rectangle" ->
               draw_rectangle(c1, h, Get(params, "corner1", <<Num(0), Num(0)>>),
               Get(params, "corner2", <<Num(100), Num(100)>>),
               <<>>, Opt(params, "color"), <<>>)
          [] shape = "polyline"  ->
               draw_polyline(c1, h,
               Get(params, "points",
               <<<<Num(0), Num(0)>>, <<Num(50), Num(50)>>, <<Num(100), Num(0)>>>>),
               Get(params, "closed", FALSE), <<>>, Opt(params, "color"), <<>>)
          [] shape = "text"      ->
               draw_text(c1, h, Get(params, "position", <<Num(0), Num(0)>>),
               Get(params, "text", <<"T","e","x","t">>), Get(params, "height", [m |-> 25, e |-> 1]),
               Get(params, "rotation", Num(0)), <<>>, Opt(params, "color"))
          [] shape = "hatch"     ->
               draw_hatch(c1, h,
               Get(params, "boundary_points",
               <<<<Num(0), Num(0)>>, <<Num(100), Num(0)>>, <<Num(100), Num(100)>>,
               <<Num(0), Num(100)>>>>),
               Get(params, "pattern_name", <<"S","O","L","I","D">>),
               Get(params, "pattern_scale", Num(1)), <<>>, Opt(params, "color"))
          [] shape = "dimension" ->
               add_dimension(c1, h, Get(params, "start", <<Num(0), Num(0)>>),
               Get(params, "end", <<Num(100), Num(0)>>),
               Get(params, "text_position", <<Num(50), Num(10)>>),
               <<>>, Opt(params, "color"))
          [] OTHER -> Return(c1, h, ErrorResult("Unsupported shape: " \o shape))
      Parsed(c1, p) ==
        IF p.exc THEN Raise(c, h, "ValueError")
        ELSE IF p.ret.shape = None
        THEN Return(c1, h,
                    [success |-> FALSE,
                     error   |-> "Could not understand command: " \o Join(command),
                     parsed  |-> [action |-> p.ret.action,
                                  confidence |-> p.ret.confidence]])
        ELSE IF p.ret.action = "save" THEN save_drawing(c1, h, command)
        ELSE Handler(c1, p.ret.shape, p.ret.parameters)
  IN  Parsed([c EXCEPT !.last_command = command], parse_command(command))

\* CADService.process_natural_language
process_natural_language(c, h, command) ==
  LET Handler(c1, shape, params) ==
        CASE shape = "line"      ->
               draw_line(c1, h, Get(params, "start", <<Num(0), Num(0)>>),
               Get(params, "end", <<Num(100), Num(100)>>), <<>>, Opt(params, "color"), <<>>)
          [] shape = "circle"    ->
               draw_circle(c1, h, Get(params, "center", <<Num(0), Num(0)>>),
               Get(params, "radius", Num(50)), <<>>, Opt(params, "color"), <<>>)
          [] shape = "arc"       ->
               draw_arc(c1, h, Get(params, "center", <<Num(0), Num(0)>>), Get(params, "radius", Num(50)),
               Get(params, "start_angle", Num(0)), Get(params, "end_angle", Num(90)),
               <<>>, Opt(params, "color"), <<>>)
          [] shape = "ellipse"   ->
               draw_ellipse(c1, h, Get(params, "center", <<Num(0), Num(0)>>),
               Get(params, "major_axis", Num(100)), Get(params, "minor_axis", Num(50)),
               Get(params, "rotation", Num(0)), <<>>, Opt(params, "color"), <<>>)
          [] shape = "rectangle" ->
               draw_rectangle(c1, h, Get(params, "corner1", <<Num(0), Num(0)>>),
               Get(params, "corner2", <<Num(100), Num(100)>>),
               <<>>, Opt(params, "color"), <<>>)
          [] shape = "polyline"  ->
               draw_polyline(c1, h,
               Get(params, "points",
               <<<<Num(0), Num(0)>>, <<Num(50), Num(50)>>, <<Num(100), Num(0)>>>>),
               Get(params, "closed", FALSE), <<>>, Opt(params, "color"), <<>>)
          [] shape = "text"      ->
               draw_text(c1, h, Get(params, "position", <<Num(0), Num(0)>>),
               Get(params, "text", <<"T","e","x","t">>), Get(params, "height", [m |-> 25, e |-> 1]),
               Get(params, "rotation", Num(0)), <<>>, Opt(params, "color"))
          [] shape = "hatch"     ->
               draw_hatch(c1, h,
               Get(params, "boundary_points",
               <<<<Num(0), Num(0)>>, <<Num(100), Num(0)>>, <<Num(100), Num(100)>>,
               <<Num(0), Num(100)>>>>),
               Get(params, "pattern_name", <<"S","O","L","I","D">>),
               Get(params, "pattern_scale", Num(1)), <<>>, Opt(params, "color"))
          [] shape = "dimension" ->
               add_dimension(c1, h, Get(params, "start", <<Num(0), Num(0)>>),
               Get(params, "end", <<Num(100), Num(0)>>),
               Get(params, "text_position", <<Num(50), Num(10)>>),
               <<>>, Opt(params, "color"))
          [] OTHER -> Return(c1, h, ErrorResult("Unsupported shape: " \o shape))
      Parsed(c1, p) ==
        IF p.exc THEN Raise(c, h, "ValueError")
        ELSE IF p.ret.shape = None
        THEN Return(c1, h,
                    [success |-> FALSE,
                     error   |-> "Could not understand command: " \o Join(command),
                     parsed  |-> [action |-> p.ret.action,
                                  confidence |-> p.ret.confidence]])
        ELSE Handler(c1, p.ret.shape, p.ret.parameters)
  IN  Parsed([c EXCEPT !.last_command = command], parse_command(command))

\* json.dumps(result): the JSON document of the dict
JsonDumps(result) == [json |-> result]

\* get_cad_service()
get_cad_service(cs, h) == IF cs = NoService THEN NewService(h.cad_type) ELSE cs

\* no except clause: what the service raises goes on to the caller
handle_tool_call_Propagates(cs, h, name, arguments) ==
  LET Required ==
        CASE name = "draw_line"       -> <<"start", "end">>
          [] name = "draw_circle"     -> <<"center", "radius">>
          [] name = "draw_arc"        -> <<"center", "radius", "start_angle", "end_angle">>
          [] name = "draw_ellipse"    -> <<"center", "major_axis", "minor_axis">>
          [] name = "draw_polyline"   -> <<"points">>
          [] name = "draw_rectangle"  -> <<"corner1", "corner2">>
          [] name = "draw_text"       -> <<"position", "text">>
          [] name = "draw_hatch"      -> <<"boundary_points">>
          [] name = "add_dimension"   -> <<"start", "end", "text_position">>
          [] name = "save_drawing"    -> <<"file_path">>
          [] name = "process_command" -> <<"command">>
          [] OTHER                    -> <<>>
      KeyError(is) ==
        IF is = {} THEN ""
        ELSE "'" \o Required[CHOOSE i \in is : \A j \in is : i <= j] \o "'"
      Tool(c) ==
        CASE name = "draw_line" ->
               draw_line(c, h, arguments.start, arguments.end, Opt(arguments, "layer"), Opt(arguments, "color"),
                         Opt(arguments, "lineweight"))
          [] name = "draw_circle" ->
               draw_circle(c, h, arguments.center, arguments.radius, Opt(arguments, "layer"), Opt(arguments, "color"),
                           Opt(arguments, "lineweight"))
          [] name = "draw_arc" ->
               draw_arc(c, h, arguments.center, arguments.radius, arguments.start_angle, arguments.end_angle,
                        Opt(arguments, "layer"), Opt(arguments, "color"), Opt(arguments, "lineweight"))
          [] name = "draw_ellipse" ->
               draw_ellipse(c, h, arguments.center, arguments.major_axis, arguments.minor_axis,
                            Get(arguments, "rotation", Num(0)), Opt(arguments, "layer"), Opt(arguments, "color"),
                            Opt(arguments, "lineweight"))
          [] name = "draw_polyline" ->
               draw_polyline(c, h, arguments.points, Get(arguments, "closed", FALSE), Opt(arguments, "layer"),
                             Opt(arguments, "color"), Opt(arguments, "lineweight"))
          [] name = "draw_rectangle" ->
               draw_rectangle(c, h, arguments.corner1, arguments.corner2, Opt(arguments, "layer"),
                              Opt(arguments, "color"), Opt(arguments, "lineweight"))
          [] name = "draw_text" ->
               draw_text(c, h, arguments.position, arguments.text, Get(arguments, "height", [m |-> 25, e |-> 1]),
                         Get(arguments, "rotation", Num(0)), Opt(arguments, "layer"), Opt(arguments, "color"))
          [] name = "draw_hatch" ->
               draw_hatch(c, h, arguments.boundary_points,
                          Get(arguments, "pattern_name", <<"S","O","L","I","D">>),
                          Get(arguments, "pattern_scale", Num(1)), Opt(arguments, "layer"),
                          Opt(arguments, "color"))
          [] name = "add_dimension" ->
               add_dimension(c, h, arguments.start, arguments.end, arguments.text_position, Opt(arguments, "layer"),
                             Opt(arguments, "color"))
          [] name = "save_drawing" -> save_drawing(c, h, arguments.file_path)
          [] name = "process_command" -> process_natural_language(c, h, arguments.command)
          [] OTHER -> Return(c, h, ErrorResult("Unknown tool: " \o name))
      Dumped(o) ==
        IF o.exc # None THEN o
        ELSE Return(o.cad, o.host, JsonDumps(o.ret))
      Looked(c, error) ==
        IF error # "" THEN Return(c, h, JsonDumps(ErrorResult(error)))
        ELSE Dumped(Tool(c))
      Service(c) ==
        Looked(c, KeyError({i \in 1..Len(Required) : Required[i] \notin DOMAIN arguments}))
  IN  Service(get_cad_service(cs, h))

\* handle_tool_call(name, arguments): the JSON string it returns
handle_tool_call(cs, h, name, arguments) ==
  LET Required ==
        CASE name = "draw_line"       -> <<"start", "end">>
          [] name = "draw_circle"     -> <<"center", "radius">>
          [] name = "draw_arc"        -> <<"center", "radius", "start_angle", "end_angle">>
          [] name = "draw_ellipse"    -> <<"center", "major_axis", "minor_axis">>
          [] name = "draw_polyline"   -> <<"points">>
          [] name = "draw_rectangle"  -> <<"corner1", "corner2">>
          [] name = "draw_text"       -> <<"position", "text">>
          [] name = "draw_hatch"      -> <<"boundary_points">>
          [] name = "add_dimension"   -> <<"start", "end", "text_position">>
          [] name = "save_drawing"    -> <<"file_path">>
          [] name = "process_command" -> <<"command">>
          [] OTHER                    -> <<>>
      KeyError(is) ==
        IF is = {} THEN ""
        ELSE "'" \o Required[CHOOSE i \in is : \A j \in is : i <= j] \o "'"
      Tool(c) ==
        CASE name = "draw_line" ->
               draw_line(c, h, arguments.start, arguments.end, Opt(arguments, "layer"), Opt(arguments, "color"),
                         Opt(arguments, "lineweight"))
          [] name = "draw_circle" ->
               draw_circle(c, h, arguments.center, arguments.radius, Opt(arguments, "layer"), Opt(arguments, "color"),
                           Opt(arguments, "lineweight"))
          [] name = "draw_arc" ->
               draw_arc(c, h, arguments.center, arguments.radius, arguments.start_angle, arguments.end_angle,
                        Opt(arguments, "layer"), Opt(arguments, "color"), Opt(arguments, "lineweight"))
          [] name = "draw_ellipse" ->
               draw_ellipse(c, h, arguments.center, arguments.major_axis, arguments.minor_axis,
                            Get(arguments, "rotation", Num(0)), Opt(arguments, "layer"), Opt(arguments, "color"),
                            Opt(arguments, "lineweight"))
          [] name = "draw_polyline" ->
               draw_polyline(c, h, arguments.points, Get(arguments, "closed", FALSE), Opt(arguments, "layer"),
                             Opt(arguments, "color"), Opt(arguments, "lineweight"))
          [] name = "draw_rectangle" ->
               draw_rectangle(c, h, arguments.corner1, arguments.corner2, Opt(arguments, "layer"),
                              Opt(arguments, "color"), Opt(arguments, "lineweight"))
          [] name = "draw_text" ->
               draw_text(c, h, arguments.position, arguments.text, Get(arguments, "height", [m |-> 25, e |-> 1]),
                         Get(arguments, "rotation", Num(0)), Opt(arguments, "layer"), Opt(arguments, "color"))
          [] name = "draw_hatch" ->
               draw_hatch(c, h, arguments.boundary_points,
                          Get(arguments, "pattern_name", <<"S","O","L","I","D">>),
                          Get(arguments, "pattern_scale", Num(1)), Opt(arguments, "layer"),
                          Opt(arguments, "color"))
          [] name = "add_dimension" ->
               add_dimension(c, h, arguments.start, arguments.end, arguments.text_position, Opt(arguments, "layer"),
                             Opt(arguments, "color"))
          [] name = "save_drawing" -> save_drawing(c, h, arguments.file_path)
          [] name = "process_command" -> process_natural_language(c, h, arguments.command)
          [] OTHER -> Return(c, h, ErrorResult("Unknown tool: " \o name))
      Dumped(o) ==
        Return(o.cad, o.host,
               JsonDumps(IF o.exc # None THEN ErrorResult(o.exc) ELSE o.ret))
      Looked(c, error) ==
        IF error # "" THEN Return(c, h, JsonDumps(ErrorResult(error)))
        ELSE Dumped(Tool(c))
      Service(c) ==
        Looked(c, KeyError({i \in 1..Len(Required) : Required[i] \notin DOMAIN arguments}))
  IN  Service(get_cad_service(cs, h))

(***************************************************************************)
(* One caller: composing a command text and calling the parser on it.      *)
(***************************************************************************)
\* at most this many vocabulary items in one command text
MaxWords == 2

\* the value of parsed and kept before any call has returned
NoCommand == ParsedCommand(None, None, [k \in {} |-> None], <<>>, Num(0))

\* the concurrent callers
NumCallers == 2

Callers == 1..NumCallers

\* the frame of a caller that is not inside parse_command
IdleFrame ==
  [pc |-> "idle", text |-> <<>>, action |-> None, shape |-> None,
   params |-> [k \in {} |-> None], exc |-> FALSE, color |-> NoColor, ret |-> NoCommand]

\* the pattern NLPProcessor.__init__ compiles from the colour table
COLOR_PATTERN_SOURCE == _build_color_pattern(COLOR_MAP_SOURCE)

\* no service operation has been called yet
NoReply == [exc |-> None, ret |-> NoResult]

\* a machine with pywin32, the default configuration and a CAD application
\* that is installed and not running
HostAtImport ==
  [win32com |-> TRUE, cad_type |-> "AUTOCAD", cad |-> "startable", docs |-> "ok",
   com |-> "ok"]

\* import of the module, then NLPProcessor.__init__
Init ==
  /\ COLOR_MAP = COLOR_MAP_SOURCE
  /\ SHAPE_KEYWORDS = SHAPE_KEYWORDS_SOURCE
  /\ ACTION_KEYWORDS = ACTION_KEYWORDS_SOURCE
  /\ _color_pattern = COLOR_PATTERN_SOURCE
  /\ text = <<>>
  /\ words = 0
  /\ pc = "compose"
  /\ parsed = NoCommand
  /\ tag = None
  /\ last_color = NoColor
  /\ found = <<>>
  /\ kept = NoCommand
  /\ calls = 0
  /\ frames = [c \in Callers |-> IdleFrame]
  /\ host = HostAtImport
  /\ cad_service = NoService
  /\ reply = NoReply
  /\ steps = 0

\* the caller appends w to the command text
Type(w) ==
  /\ pc = "compose"
  /\ words < MaxWords
  /\ text' = text \o w
  /\ words' = words + 1
  /\ UNCHANGED <<globals, service, found, pc, parsed, tag, last_color, kept, calls, frames>>

\* the caller calls parse_command(text)
ParseCommand ==
  /\ pc = "compose"
  /\ \E r \in {parse_command(text)} :
       /\ pc' = IF r.exc THEN "raised" ELSE "parse_command"
       /\ parsed' = IF r.exc THEN parsed ELSE r.ret
  /\ UNCHANGED <<globals, service, found, text, words, tag, last_color, kept, calls, frames>>

\* the caller calls identify_action(text)
IdentifyAction ==
  /\ pc = "compose"
  /\ pc' = "identify_action"
  /\ tag' = identify_action(text)
  /\ UNCHANGED <<globals, service, found, text, words, parsed, last_color, kept, calls, frames>>

\* the caller calls identify_shape(text)
IdentifyShape ==
  /\ pc = "compose"
  /\ pc' = "identify_shape"
  /\ tag' = identify_shape(text)
  /\ UNCHANGED <<globals, service, found, text, words, parsed, last_color, kept, calls, frames>>

\* the caller calls extract_color(text)
ExtractColor ==
  /\ pc = "compose"
  /\ pc' = "extract_color"
  /\ last_color' = extract_color(text)
  /\ UNCHANGED <<globals, service, found, text, words, parsed, tag, kept, calls, frames>>

\* the caller calls extract_quoted_text(text)
ExtractQuotedText ==
  /\ pc = "compose"
  /\ pc' = "extract_quoted_text"
  /\ found' = extract_quoted_text(text)
  /\ UNCHANGED <<globals, service, text, words, parsed, tag, last_color, kept, calls, frames>>

\* the caller calls extract_coordinates(text)
ExtractCoordinates ==
  /\ pc = "compose"
  /\ \E coords \in {extract_coordinates(text)} :
       /\ pc' = IF CoordsRaise(coords) THEN "raised" ELSE "extract_coordinates"
       /\ found' = IF CoordsRaise(coords) THEN found ELSE coords
  /\ UNCHANGED <<globals, service, text, words, parsed, tag, last_color, kept, calls, frames>>

\* the caller calls extract_numbers(text)
ExtractNumbers ==
  /\ pc = "compose"
  /\ \E numbers \in {extract_numbers(text)} :
       /\ pc' = IF NumbersRaise(numbers) THEN "raised" ELSE "extract_numbers"
       /\ found' = IF NumbersRaise(numbers) THEN found ELSE numbers
  /\ UNCHANGED <<globals, service, text, words, parsed, tag, last_color, kept, calls, frames>>

(***************************************************************************)
(* Command texts over action, shape and colour words.                      *)
(***************************************************************************)
KeywordVocab ==
  { <<"d","r","a","w"," ">>,
    <<"S","a","v","e"," ">>,
    <<"r","e","d"," ">>,
    <<"l","i","n","e">>,
    <<"p","o","l","y">>,
    <<"g","o","n">>,
    <<"C","i","r","c","l","e">>,
    <<"u692d">>,
    <<"u5706">>,
    <<"a","r","c">>,
    <<"r","e","c","t">>,
    <<"f","i","l","l">>,
    <<"q","u","o","t","a">> }

NextKeyword ==
  \/ \E w \in KeywordVocab : Type(w)
  \/ ParseCommand
  \/ IdentifyAction
  \/ IdentifyShape

SpecKeyword == Init /\ [][NextKeyword]_vars

(***************************************************************************)
(* Texts over colour names and their pieces.                               *)
(***************************************************************************)
ColorVocab ==
  { <<"u7d2b">>,
    <<"u7ea2">>,
    <<"u8272">>,
    <<"u7c89">>,
    <<"R","e","d">>,
    <<"r","o","s">>,
    <<"s","a">>,
    <<"b","l","u">>,
    <<"e">>,
    <<" ">>,
    <<"a">>,
    <<"g","r">>,
    <<"e","y">> }

NextColor ==
  \/ \E w \in ColorVocab : Type(w)
  \/ ExtractColor

SpecColor == Init /\ [][NextColor]_vars

(***************************************************************************)
(* Command texts that start with a shape word and go on with coordinates,  *)
(* numbers, keywords and pieces of numbers.                                *)
(***************************************************************************)
ShapeStarts ==
  { <<"c","i","r","c","l","e">>,
    <<"a","r","c">>,
    <<"o","v","a","l">> }

ParamVocab ==
  { <<" ","(","1",",","2",")">>,
    <<" ","3","0">>,
    <<" ","r","a","d","i","u","s"," ","5">>,
    <<"u534a","u5f84","=","2",".","5">>,
    <<" ","-","3",",","4">>,
    <<"1",".">>,
    <<",","2">>,
    <<"-">>,
    <<".">>,
    <<"r","e","d"," ">>,
    <<"R","a","d","i","u","s">> }

InitShape ==
  /\ COLOR_MAP = COLOR_MAP_SOURCE
  /\ SHAPE_KEYWORDS = SHAPE_KEYWORDS_SOURCE
  /\ ACTION_KEYWORDS = ACTION_KEYWORDS_SOURCE
  /\ _color_pattern = COLOR_PATTERN_SOURCE
  /\ text \in ShapeStarts
  /\ words = 0
  /\ pc = "compose"
  /\ parsed = NoCommand
  /\ tag = None
  /\ last_color = NoColor
  /\ found = <<>>
  /\ kept = NoCommand
  /\ calls = 0
  /\ frames = [c \in Callers |-> IdleFrame]
  /\ host = HostAtImport
  /\ cad_service = NoService
  /\ reply = NoReply
  /\ steps = 0

NextParams ==
  \/ \E w \in ParamVocab : Type(w)
  \/ ParseCommand

SpecParams == InitShape /\ [][NextParams]_vars

(***************************************************************************)
(* Parsing a text, keeping the result, parsing other commands, and then    *)
(* parsing the raw_text of the kept result.                                *)
(***************************************************************************)
\* at most this many other commands are parsed in between
MaxCalls == 2

RoundVocab ==
  { <<"D","r","a","w"," ">>,
    <<"C","i","r","c","l","e">>,
    <<" ","(","1",",","2",")">>,
    <<"r","e","d"," ">>,
    <<" ","3","0">>,
    <<"L","I","N","E">>,
    <<"s","a","v","e">>,
    <<" ","x",".","d","w","g">> }

OtherTexts ==
  { <<"e","r","a","s","e">>,
    <<"b","l","u","e"," ","a","r","c"," ","5">> }

\* the caller keeps the ParsedCommand it was returned
Keep ==
  /\ pc = "parse_command"
  /\ pc' = "kept"
  /\ kept' = parsed
  /\ UNCHANGED <<globals, service, found, text, words, parsed, tag, last_color, calls, frames>>

\* Mutant of Other: the call leaves the colour table empty behind it.
Other_ClearsColorMap(t) ==
  /\ pc = "kept"
  /\ calls < MaxCalls
  /\ calls' = calls + 1
  /\ \E r \in {parse_command(t)} : parsed' = r.ret
  /\ COLOR_MAP' = <<>>
  /\ UNCHANGED <<service, found, SHAPE_KEYWORDS, ACTION_KEYWORDS, _color_pattern, text, words, pc, tag,
                 last_color, kept, frames>>

\* the caller calls parse_command(t) on another command
Other(t) ==
  /\ pc = "kept"
  /\ calls < MaxCalls
  /\ calls' = calls + 1
  /\ \E r \in {parse_command(t)} : parsed' = r.ret
  /\ UNCHANGED <<globals, service, found, text, words, pc, tag, last_color, kept, frames>>

\* the caller calls parse_command(kept.raw_text)
Reparse ==
  /\ pc = "kept"
  /\ \E r \in {parse_command(kept.raw_text)} :
       /\ pc' = IF r.exc THEN "raised" ELSE "reparsed"
       /\ parsed' = IF r.exc THEN parsed ELSE r.ret
  /\ UNCHANGED <<globals, service, found, text, words, tag, last_color, kept, calls, frames>>

NextRoundTrip ==
  \/ \E w \in RoundVocab : Type(w)
  \/ ParseCommand
  \/ Keep
  \/ \E t \in OtherTexts : Other(t)
  \/ Reparse

SpecRoundTrip == Init /\ [][NextRoundTrip]_vars

(***************************************************************************)
(* Several callers inside parse_command of one NLPProcessor at once: each  *)
(* caller runs the statements of parse_command on its own frame, and the   *)
(* statements of different callers interleave.                             *)
(***************************************************************************)
ConcurrentTexts ==
  { <<"r","e","d"," ","a","r","c"," ","5">>,
    <<"s","a","v","e">>,
    <<"B","l","u","e"," ","l","i","n","e">> }

\* caller c does a statement: its frame becomes f
Step(c, f) ==
  /\ frames' = [frames EXCEPT ![c] = f]
  /\ UNCHANGED <<globals, service, found, text, words, pc, parsed, tag, last_color, kept, calls>>

\* caller c enters parse_command(t)
Call(c, t) ==
  /\ frames[c].pc = "idle"
  /\ Step(c, [frames[c] EXCEPT !.pc = "action", !.text = t])

\* action = self.identify_action(text) or "draw"
StepAction(c) ==
  /\ frames[c].pc = "action"
  /\ Step(c, [frames[c] EXCEPT !.pc = "shape",
                               !.action = OrDraw(identify_action(frames[c].text))])

\* shape = self.identify_shape(text); if not shape: return ...
StepShape(c) ==
  /\ frames[c].pc = "shape"
  /\ \E shape \in {identify_shape(frames[c].text)} :
       Step(c, IF shape = None
               THEN [frames[c] EXCEPT
                       !.pc = "returned",
                       !.ret = ParsedCommand(frames[c].action, None, [k \in {} |-> None],
                                             frames[c].text, [m |-> 3, e |-> 1])]
               ELSE [frames[c] EXCEPT !.pc = "dispatch", !.shape = shape])

\* params = parser(text)
StepDispatch(c) ==
  /\ frames[c].pc = "dispatch"
  /\ \E p \in {Dispatch(frames[c].shape, frames[c].text)} :
       Step(c, [frames[c] EXCEPT !.pc = IF p.exc THEN "raised" ELSE "color",
                                 !.exc = p.exc,
                                 !.params = p.params])

\* Mutant of StepColor: the colour found is remembered on the processor and
\* a remembered colour is used in place of a search.
StepColor_CachedColor(c) ==
  /\ frames[c].pc = "color"
  /\ \E color \in {IF last_color # NoColor THEN last_color
                    ELSE extract_color(frames[c].text)} :
       /\ last_color' = color
       /\ frames' = [frames EXCEPT ![c] =
            [frames[c] EXCEPT !.pc = "return",
                              !.color = color,
                              !.params = IF color # NoColor THEN SetColor(@, color) ELSE @]]
  /\ UNCHANGED <<globals, service, found, text, words, pc, parsed, tag, kept, calls>>

\* color = self.extract_color(text); if color: params["color"] = color
StepColor(c) ==
  /\ frames[c].pc = "color"
  /\ \E color \in {extract_color(frames[c].text)} :
       Step(c, [frames[c] EXCEPT !.pc = "return",
                                 !.color = color,
                                 !.params = IF color # NoColor THEN SetColor(@, color) ELSE @])

\* return ParsedCommand(...)
StepReturn(c) ==
  /\ frames[c].pc = "return"
  /\ Step(c, [frames[c] EXCEPT
                 !.pc = "returned",
                 !.ret = ParsedCommand(frames[c].action, frames[c].shape, frames[c].params,
                                       frames[c].text, Confidence(frames[c].params))])

NextConcurrent ==
  \E c \in Callers :
    \/ \E t \in ConcurrentTexts : Call(c, t)
    \/ StepAction(c)
    \/ StepShape(c)
    \/ StepDispatch(c)
    \/ StepColor(c)
    \/ StepReturn(c)

SpecConcurrent == Init /\ [][NextConcurrent]_vars

\* import of the module, then NLPProcessor.__init__; the caller's command
\* text starts with one of starts
InitStarting(starts) ==
  /\ COLOR_MAP = COLOR_MAP_SOURCE
  /\ SHAPE_KEYWORDS = SHAPE_KEYWORDS_SOURCE
  /\ ACTION_KEYWORDS = ACTION_KEYWORDS_SOURCE
  /\ _color_pattern = COLOR_PATTERN_SOURCE
  /\ text \in starts
  /\ words = 0
  /\ pc = "compose"
  /\ parsed = NoCommand
  /\ tag = None
  /\ last_color = NoColor
  /\ found = <<>>
  /\ kept = NoCommand
  /\ calls = 0
  /\ frames = [c \in Callers |-> IdleFrame]
  /\ host = HostAtImport
  /\ cad_service = NoService
  /\ reply = NoReply
  /\ steps = 0

(***************************************************************************)
(* Command texts that start with a shape word and go on with colour words, *)
(* a centre and a radius.                                                  *)
(***************************************************************************)
ColoredStarts ==
  { <<"u5706">>,
    <<"l","i","n","e">>,
    <<"t","e","x","t">>,
    <<"a","r","c">>,
    <<"e","l","l","i","p","s","e">>,
    <<"r","e","c","t">>,
    <<"p","o","l","y","g","o","n">>,
    <<"q","u","o","t","a">>,
    <<"f","i","l","l">> }

ColoredVocab ==
  { <<"u7ea2","u8272">>,
    <<" ","(","0",",","0",")">>,
    <<"u534a","u5f84","3","0">>,
    <<"r","e","d"," ">>,
    <<"r","o","u017f","a"," ">>,
    <<" ","B","l","u","e">>,
    <<" ","c","o","l","o","r","=","3">>,
    <<" ","5">> }

NextColored ==
  \/ \E w \in ColoredVocab : Type(w)
  \/ ParseCommand

SpecColored == InitStarting(ColoredStarts) /\ [][NextColored]_vars

(***************************************************************************)
(* Callers of the CADService: direct calls of its methods, natural         *)
(* language commands and tool calls, on a host whose CAD application       *)
(* comes and goes.                                                         *)
(***************************************************************************)
\* at most this many service operations and host changes in one run
MaxSteps == 2

Hosts ==
  [win32com : BOOLEAN, cad_type : {"AUTOCAD"}, cad : {"absent", "startable", "running"},
   docs : {"ok", "no_count", "no_model_space"}, com : {"ok", "fails", "hatch_fails"}]

\* the module is imported on some host; nothing has been called
InitService ==
  /\ COLOR_MAP = COLOR_MAP_SOURCE
  /\ SHAPE_KEYWORDS = SHAPE_KEYWORDS_SOURCE
  /\ ACTION_KEYWORDS = ACTION_KEYWORDS_SOURCE
  /\ _color_pattern = COLOR_PATTERN_SOURCE
  /\ text = <<>>
  /\ words = 0
  /\ pc = "compose"
  /\ parsed = NoCommand
  /\ tag = None
  /\ last_color = NoColor
  /\ found = <<>>
  /\ kept = NoCommand
  /\ calls = 0
  /\ frames = [c \in Callers |-> IdleFrame]
  /\ host \in {h \in Hosts : h.docs = "ok" /\ h.com = "ok"}
  /\ cad_service = NoService
  /\ reply = NoReply
  /\ steps = 0

\* the CAD application is started, closed or removed by its user, or starts
\* or stops answering
HostChanges(h) ==
  /\ steps < MaxSteps
  /\ h.win32com = host.win32com
  /\ h # host
  /\ host' = h
  /\ steps' = steps + 1
  /\ UNCHANGED <<globals, caller, frames, cad_service, reply>>

\* cad_service = CADService()
Construct ==
  /\ cad_service = NoService
  /\ cad_service' = NewService(host.cad_type)
  /\ UNCHANGED <<globals, caller, frames, host, reply, steps>>

\* a call made through method (handle_tool_call, or CADService for a method
\* of the service called directly) with the command text command (none for
\* a call that takes no command) has come back as o
Called(o, command, method) ==
  /\ steps < MaxSteps
  /\ steps' = steps + 1
  /\ text' = command
  /\ pc' = method
  /\ cad_service' = o.cad
  /\ host' = o.host
  /\ reply' = [exc |-> o.exc, ret |-> o.ret]
  /\ UNCHANGED <<globals, words, parsed, tag, last_color, found, kept, calls, frames>>

P1 == <<Num(7)>>
P2 == <<Num(1), Num(2)>>
P3 == <<Num(3), Num(4), Num(5)>>

\* optional arguments: all left out, all given, a colour out of range
Options ==
  { [layer |-> <<>>, color |-> <<>>, lineweight |-> <<>>],
    [layer |-> <<"w","a","l","l">>, color |-> <<7>>, lineweight |-> <<30>>],
    [layer |-> <<>>, color |-> <<256>>, lineweight |-> <<>>] }

DrawLine(start, end, o) ==
  /\ cad_service # NoService
  /\ Called(draw_line(cad_service, host, start, end, o.layer, o.color, o.lineweight), <<>>, "CADService")

DrawCircle(center, radius, o) ==
  /\ cad_service # NoService
  /\ Called(draw_circle(cad_service, host, center, radius, o.layer, o.color, o.lineweight), <<>>, "CADService")

DrawArc(center, radius, o) ==
  /\ cad_service # NoService
  /\ Called(draw_arc(cad_service, host, center, radius, Num(0), Num(90), o.layer, o.color,
                     o.lineweight), <<>>, "CADService")

DrawEllipse(center, major_axis, minor_axis, o) ==
  /\ cad_service # NoService
  /\ Called(draw_ellipse(cad_service, host, center, major_axis, minor_axis, Num(0),
                         o.layer, o.color, o.lineweight), <<>>, "CADService")

DrawPolyline(points, o) ==
  /\ cad_service # NoService
  /\ Called(draw_polyline(cad_service, host, points, FALSE, o.layer, o.color,
                          o.lineweight), <<>>, "CADService")

DrawRectangle(corner1, corner2, o) ==
  /\ cad_service # NoService
  /\ Called(draw_rectangle(cad_service, host, corner1, corner2, o.layer, o.color,
                           o.lineweight), <<>>, "CADService")

DrawText(position, content, height, o) ==
  /\ cad_service # NoService
  /\ Called(draw_text(cad_service, host, position, content, height, Num(0), o.layer,
                      o.color), <<>>, "CADService")

DrawHatch(boundary_points, pattern_name, pattern_scale, o) ==
  /\ cad_service # NoService
  /\ Called(draw_hatch(cad_service, host, boundary_points, pattern_name, pattern_scale,
                       o.layer, o.color), <<>>, "CADService")

AddDimension(start, end, text_position, o) ==
  /\ cad_service # NoService
  /\ Called(add_dimension(cad_service, host, start, end, text_position, o.layer, o.color), <<>>, "CADService")

SaveDrawing(file_path) ==
  /\ cad_service # NoService
  /\ Called(save_drawing(cad_service, host, file_path), <<>>, "CADService")

ProcessNaturalLanguage(command) ==
  /\ cad_service # NoService
  /\ Called(process_natural_language(cad_service, host, command), command, "CADService")

\* await handle_tool_call(name, arguments)
HandleToolCall(name, arguments) ==
  Called(handle_tool_call(cad_service, host, name, arguments),
         IF name = "process_command" /\ "command" \in DOMAIN arguments
         THEN arguments.command ELSE <<>>,
         "handle_tool_call")

ServiceCommands ==
  { <<"h","e","l","l","o">>,
    <<"r","e","d"," ","l","i","n","e">>,
    <<"c","i","r","c","l","e"," ","-","5">>,
    <<"f","i","l","l">>,
    <<"s","a","v","e"," ","r","e","c","t">> }

ToolCalls ==
  { [name |-> "draw_line", arguments |-> [start |-> P2, end |-> P3]],
    [name |-> "draw_line", arguments |-> [start |-> P2]],
    [name |-> "draw_circle", arguments |-> [center |-> P2, radius |-> Num(5), color |-> 7]],
    [name |-> "draw_arc",
     arguments |-> [center |-> P2, radius |-> Num(5), start_angle |-> Num(0)]],
    [name |-> "draw_ellipse",
     arguments |-> [center |-> P2, major_axis |-> Num(4), minor_axis |-> Num(2)]],
    [name |-> "draw_polyline", arguments |-> [points |-> <<P2, P1>>]],
    [name |-> "draw_rectangle", arguments |-> [corner1 |-> P2, corner2 |-> P3]],
    [name |-> "draw_text", arguments |-> [position |-> P2, text |-> <<"h","i">>]],
    [name |-> "draw_hatch", arguments |-> [boundary_points |-> <<P2, P3, P2>>]],
    [name |-> "add_dimension", arguments |-> [start |-> P2, end |-> P3]],
    [name |-> "save_drawing", arguments |-> [file_path |-> <<"a",".","d","w","g">>]],
    [name |-> "process_command", arguments |-> [command |-> <<"a","r","c">>]],
    [name |-> "zoom", arguments |-> [k \in {} |-> None]] }

NextService ==
  \/ \E h \in Hosts : HostChanges(h)
  \/ Construct
  \/ \E start \in {P1, P2}, end \in {P2, P3}, o \in Options : DrawLine(start, end, o)
  \/ \E center \in {P1, P2}, radius \in {Num(0), Num(5)}, o \in Options :
       DrawCircle(center, radius, o)
  \/ \E center \in {P1, P2}, radius \in {Num(-1), Num(5)}, o \in Options :
       DrawArc(center, radius, o)
  \/ \E center \in {P1, P2}, major_axis \in {Num(0), Num(4)},
        minor_axis \in {Num(-1), Num(0)}, o \in Options :
       DrawEllipse(center, major_axis, minor_axis, o)
  \/ \E points \in {<<P2>>, <<P2, P1>>, <<P2, P3>>}, o \in Options : DrawPolyline(points, o)
  \/ \E corner1 \in {P1, P2}, corner2 \in {P2, P3}, o \in Options :
       DrawRectangle(corner1, corner2, o)
  \/ \E position \in {P1, P2}, content \in {<<>>, <<"h","i">>},
        height \in {Num(0), [m |-> 25, e |-> 1]}, o \in Options :
       DrawText(position, content, height, o)
  \/ \E boundary_points \in {<<P2, P3>>, <<P2, P1, P3>>, <<P2, P3, P2>>},
        pattern_name \in {<<>>, <<"A","N","S","I","3","1">>},
        pattern_scale \in {Num(0), Num(1)}, o \in Options :
       DrawHatch(boundary_points, pattern_name, pattern_scale, o)
  \/ \E start \in {P1, P2}, end \in {P2}, text_position \in {P1, P3}, o \in Options :
       AddDimension(start, end, text_position, o)
  \/ \E file_path \in {<<>>, <<" ">>, <<"a",".","d","w","g">>} : SaveDrawing(file_path)
  \/ \E command \in ServiceCommands : ProcessNaturalLanguage(command)
  \/ \E call \in ToolCalls : HandleToolCall(call.name, call.arguments)

SpecService == InitService /\ [][NextService]_vars

(***************************************************************************)
(* Arc and text commands over the English and the Chinese keywords of the  *)
(* same parameter.                                                         *)
(***************************************************************************)
AngleStarts ==
  { <<"a","r","c">>,
    <<"t","e","x","t">> }

AngleVocab ==
  { <<" ","s","t","a","r","t"," ","1","0">>,
    <<"u8d77","u59cb","u89d2","2","0">>,
    <<" ","E","n","d"," ","a","n","g","l","e","=","3","0">>,
    <<"u7ec8","u6b62","u89d2",":","4","5">>,
    <<" ","h","e","i","g","h","t"," ","3">>,
    <<"u9ad8","u5ea6","4">>,
    <<" ","(","1",",","2",")">> }

NextAngles ==
  \/ \E w \in AngleVocab : Type(w)
  \/ ParseCommand

SpecAngles == InitStarting(AngleStarts) /\ [][NextAngles]_vars

(***************************************************************************)
(* Rectangle, polyline, dimension, hatch and line commands over            *)
(* coordinates and the keywords of their parameters.                       *)
(***************************************************************************)
ShapeCommandStarts ==
  { <<"r","e","c","t">>,
    <<"p","o","l","y","g","o","n">>,
    <<"q","u","o","t","a">>,
    <<"f","i","l","l">>,
    <<"l","i","n","e">> }

ShapeCommandVocab ==
  { <<" ","(","1",",","2",")">>,
    <<" ","1",".","5",",","4","(","5",",","-","6",")">>,
    <<" ","w","i","d","t","h"," ","7">>,
    <<" ","H","e","i","g","h","t","=","3">>,
    <<"u5bbd","=","8">>,
    <<"u9ad8","9">>,
    <<"u9ad8","u5ea6","4">>,
    <<" ","C","l","o","s","e">>,
    <<"u95ed","u5408">>,
    <<" ","P","a","t","t","e","r","n",":","a","n","s","i","3">>,
    <<" ","s","c","a","l","e"," ","2">> }

NextShapes ==
  \/ \E w \in ShapeCommandVocab : Type(w)
  \/ ParseCommand

SpecShapes == InitStarting(ShapeCommandStarts) /\ [][NextShapes]_vars

(***************************************************************************)
(* Text commands over quote characters, quoted words and a coordinate.     *)
(***************************************************************************)
QuotedStarts ==
  { <<"t","e","x","t">> }

QuotedVocab ==
  { <<"\"","i","t">>,
    <<"'","s","\"">>,
    <<"'","x","'">>,
    <<" ","\"","y","\"">>,
    <<"u300c","a","u300d">>,
    <<"\"">>,
    <<"'">>,
    <<"b">>,
    <<" ","(","1",",","2",")">>,
    <<"u300c">> }

NextQuoted ==
  \/ \E w \in QuotedVocab : Type(w)
  \/ ParseCommand
  \/ ExtractQuotedText

SpecQuoted == InitStarting(QuotedStarts) /\ [][NextQuoted]_vars

(***************************************************************************)
(* Texts over coordinates, numbers and the pieces of both.                 *)
(***************************************************************************)
NumberStarts ==
  { <<>> }

NumberVocab ==
  { <<"(","0",",","0",")">>,
    <<" ","(","1","0",",","2","0",")">>,
    <<"1",".","5">>,
    <<".","5",",","2">>,
    <<",">>,
    <<"-","3">>,
    <<" ","4"," ">>,
    <<".">>,
    <<"(">>,
    <<"x">> }

NextNumbers ==
  \/ \E w \in NumberVocab : Type(w)
  \/ ExtractCoordinates
  \/ ExtractNumbers

SpecNumbers == InitStarting(NumberStarts) /\ [][NextNumbers]_vars

(***************************************************************************)
(* Properties.  Occurs, FirstTag and the other definitions of this part    *)
(* state what the documentation says, independently of the operators       *)
(* above.                                                                  *)
(***************************************************************************)
\* k is a substring of t
Occurs(k, t) ==
  \E i \in 1..(Len(t) - Len(k) + 1) : SubSeq(t, i, i + Len(k) - 1) = k

\* the indexes of the table entries whose surface form occurs in t, ignoring case
Hits(table, t) ==
  {i \in 1..Len(table) : Occurs(Lower(table[i][1]), Lower(t))}

\* the tag of the least index of hits, None when hits is empty
TagOfLeast(table, hits) ==
  IF hits = {} THEN None ELSE table[CHOOSE i \in hits : \A j \in hits : i <= j][2]

\* the tag of the first entry in table order whose form occurs in t
FirstTag(table, t) == TagOfLeast(table, Hits(table, t))

NoShapeForm(t) == Hits(SHAPE_KEYWORDS, t) = {}

ColorWordOccurs(t) ==
  \E i \in 1..Len(COLOR_MAP) : Occurs(Lower(COLOR_MAP[i][1]), Lower(t))

Conf03 == [m |-> 3, e |-> 1]
Conf05 == [m |-> 5, e |-> 1]
Conf08 == [m |-> 8, e |-> 1]

\* C1: a text in which no shape surface form occurs parses to shape none, an
\* empty parameter mapping (no color key even when a colour word occurs),
\* raw_text = the text and confidence 0.3.
C1_NoShapeDegraded ==
  (pc = "parse_command" /\ NoShapeForm(text)) =>
    /\ parsed.shape = None
    /\ DOMAIN parsed.parameters = {}
    /\ parsed.raw_text = text
    /\ parsed.confidence = Conf03

\* a text with a colour word and no shape word has been parsed
C1_Witness ==
  /\ pc = "parse_command"
  /\ NoShapeForm(text)
  /\ ColorWordOccurs(text)
  /\ parsed.shape = None

\* C2: a text containing a shape surface form parses to the tag of the matched
\* (first in table order) entry, with confidence 0.8 exactly when the
\* parameter mapping is non-empty and 0.5 exactly when it is empty.
C2_ShapeAndConfidence ==
  (pc = "parse_command" /\ ~NoShapeForm(text)) =>
    /\ parsed.shape = FirstTag(SHAPE_KEYWORDS, text)
    /\ parsed.confidence \in {Conf05, Conf08}
    /\ parsed.confidence = Conf08 <=> DOMAIN parsed.parameters # {}
    /\ parsed.confidence = Conf05 <=> DOMAIN parsed.parameters = {}

\* a text with a shape word and a colour word has been parsed
C2_Witness ==
  /\ pc = "parse_command"
  /\ parsed.shape = "circle"
  /\ "color" \in DOMAIN parsed.parameters
  /\ parsed.confidence = Conf08

\* the default parameter mapping of each shape
Defaults(shape) ==
  CASE shape = "line" -> [start |-> Origin, end |-> <<Num(100), Num(100)>>]
    [] shape = "circle" -> [center |-> Origin, radius |-> Num(50)]
    [] shape = "arc" ->
         [center |-> Origin, radius |-> Num(50), start_angle |-> Num(0), end_angle |-> Num(90)]
    [] shape = "ellipse" ->
         [center |-> Origin, major_axis |-> Num(100), minor_axis |-> Num(50),
          rotation |-> Num(0)]
    [] shape = "rectangle" -> [corner1 |-> Origin, corner2 |-> <<Num(100), Num(50)>>]
    [] shape = "polyline" ->
         [points |-> <<Origin, <<Num(50), Num(50)>>, <<Num(100), Num(0)>>>>, closed |-> FALSE]
    [] shape = "text" ->
         [position |-> Origin, text |-> <<"T","e","x","t">>, height |-> [m |-> 25, e |-> 1],
          rotation |-> Num(0)]
    [] shape = "dimension" ->
         [start |-> Origin, end |-> <<Num(100), Num(0)>>,
          text_position |-> <<Num(50), Num(10)>>]
    [] shape = "hatch" ->
         [boundary_points |-> <<Origin, <<Num(100), Num(0)>>, <<Num(100), Num(100)>>,
                                <<Num(0), Num(100)>>>>,
          pattern_name |-> <<"S","O","L","I","D">>, pattern_scale |-> Num(1)]

\* no coordinates, numbers, keywords, quoted text or colour in t
NothingExtractable(t) ==
  /\ \A i \in 1..Len(t) : ~IsDigit(t[i]) /\ t[i] \notin {"\"", "'", "u300c", "u300d"}
  /\ ~ColorWordOccurs(t)
  /\ \A kw \in {<<"c","l","o","s","e">>, <<"u95ed","u5408">>, <<"u5c01","u95ed">>,
                <<"p","a","t","t","e","r","n">>} : ~Occurs(kw, Lower(t))

ActionTags == {"draw", "modify", "move", "rotate", "scale", "erase", "save"}

ShapeTags ==
  {"line", "circle", "arc", "ellipse", "rectangle", "polyline", "text", "hatch", "dimension"}

\* C7: identify_action and identify_shape return the tag of the first table
\* entry, in insertion order, whose surface form occurs in the text ignoring
\* case, none when no entry occurs; where a form contains an earlier-listed
\* form, the earlier entry wins: "polyline" is a line, U+692D U+5706 a circle.
C7_FirstEntryInTableOrder ==
  /\ pc = "identify_action" => tag = FirstTag(ACTION_KEYWORDS, text)
  /\ pc = "identify_shape" =>
       /\ tag = FirstTag(SHAPE_KEYWORDS, text)
       /\ Lower(text) = <<"p","o","l","y","l","i","n","e">> => tag = "line"
       /\ text = <<"u692d","u5706">> => tag = "circle"
       /\ \A i, j \in 1..Len(SHAPE_KEYWORDS) :
            (/\ i < j
             /\ Occurs(SHAPE_KEYWORDS[i][1], SHAPE_KEYWORDS[j][1])
             /\ Occurs(SHAPE_KEYWORDS[j][1], Lower(text)))
            => \E k \in 1..i : tag = SHAPE_KEYWORDS[k][2] /\ k \in Hits(SHAPE_KEYWORDS, text)

\* identify_shape has answered "line" for a text that reads "polyline"
C7_Witness ==
  /\ pc = "identify_shape"
  /\ Lower(text) = <<"p","o","l","y","l","i","n","e">>
  /\ tag = "line"

\* C9: the action of a ParsedCommand is one of the seven action tags, "draw"
\* when no action surface form occurs; its shape is none or one of the nine
\* shape tags; no table entry maps to a tag outside these sets.
C9_TagsEnumerated ==
  /\ \A i \in 1..Len(ACTION_KEYWORDS) : ACTION_KEYWORDS[i][2] \in ActionTags
  /\ \A i \in 1..Len(SHAPE_KEYWORDS) : SHAPE_KEYWORDS[i][2] \in ShapeTags
  /\ pc = "parse_command" =>
       /\ parsed.action \in ActionTags
       /\ parsed.shape \in ShapeTags \cup {None}
       /\ Hits(ACTION_KEYWORDS, text) = {} => parsed.action = "draw"

\* a text with a shape word and no action word has been parsed
C9_Witness ==
  /\ pc = "parse_command"
  /\ Hits(ACTION_KEYWORDS, text) = {}
  /\ parsed.action = "draw"
  /\ parsed.shape = "dimension"

\* the colour name n stands at position p of t, ignoring case
NameAt(n, t, p) ==
  /\ p + Len(n) - 1 <= Len(t)
  /\ SubSeq(Lower(t), p, p + Len(n) - 1) = Lower(n)

\* the positions of t where some colour name stands
ColorPositions(t) ==
  {p \in 1..Len(t) : \E i \in 1..Len(COLOR_MAP) : NameAt(COLOR_MAP[i][1], t, p)}

\* the index of the longest colour name standing at position p
LongestIndexAt(t, p) ==
  LET here == {i \in 1..Len(COLOR_MAP) : NameAt(COLOR_MAP[i][1], t, p)}
      best == CHOOSE i \in here :
                \A j \in here : Len(COLOR_MAP[j][1]) <= Len(COLOR_MAP[i][1])
  IN  COLOR_MAP[best][2]

\* C8: extract_color ignores case and returns none when no colour name
\* occurs; where a name and a longer name it is a prefix of both stand at the
\* place of the match, the longer one decides the index: U+7D2B U+7EA2 is 6,
\* not the 200 of U+7D2B.
C8_LongerColorNameWins ==
  pc = "extract_color" =>
    /\ ColorPositions(text) = {} => last_color = NoColor
    /\ ColorPositions(text) # {} =>
         last_color =
           LongestIndexAt(text, CHOOSE p \in ColorPositions(text) :
                                  \A q \in ColorPositions(text) : p <= q)
    /\ text = <<"u7d2b", "u7ea2">> => last_color = 6

\* extract_color has been called on U+7D2B U+7EA2
C8_Witness ==
  /\ pc = "extract_color"
  /\ text = <<"u7d2b", "u7ea2">>
  /\ last_color = 6

\* the groups the numeric patterns capture in t: both groups of every
\* coordinate match, every number match, and the group of a radius keyword
CapturedGroups(t) ==
  {CoordFindIter(t, 1)[i].g1 : i \in 1..Len(CoordFindIter(t, 1))}
    \cup {CoordFindIter(t, 1)[i].g2 : i \in 1..Len(CoordFindIter(t, 1))}
    \cup {NumberFindIter(t, 1)[i] : i \in 1..Len(NumberFindIter(t, 1))}
    \cup ({KeywordNumberSearch(t, 1, <<"r","a","d","i","u","s">>, <<>>, TRUE)} \ {<<>>})

\* s reads sign? digit+ ( "." digit* )?
WellFormedLiteral(s) ==
  LET body == IF s # <<>> /\ s[1] = "-" THEN Tail(s) ELSE s
      dots == {i \in 1..Len(body) : body[i] = "."}
  IN  /\ body # <<>>
      /\ IsDigit(body[1])
      /\ Cardinality(dots) <= 1
      /\ \A i \in 1..Len(body) : IsDigit(body[i]) \/ i \in dots

\* C4 as stated: parse_command never raises; every substring a numeric
\* pattern captures is a well-formed numeric literal that float() converts;
\* unrecognized input (no shape) and malformed input (a shape, nothing that
\* extracts) fall back to defaults at a confidence lower than 0.8.
C4_NeverRaisesLowerConfidence ==
  /\ pc # "raised"
  /\ pc = "parse_command" =>
       /\ \A g \in CapturedGroups(text) : WellFormedLiteral(g) /\ float(g) # FloatError
       /\ parsed.shape = None => DOMAIN parsed.parameters = {}
       /\ (parsed.shape # None /\ NothingExtractable(text)) =>
            parsed.parameters = Defaults(parsed.shape)
       /\ (parsed.shape = None \/ NothingExtractable(text)) =>
            parsed.confidence \in {Conf03, Conf05}

\* C4 as amended: parse_command never raises; every substring a numeric
\* pattern captures is a well-formed numeric literal that float() converts;
\* unrecognized input (no shape) gives an empty mapping at confidence 0.3,
\* malformed input under a recognized shape gives the shape's defaults at
\* the unlowered confidence 0.8.
C4_NeverRaises ==
  /\ pc # "raised"
  /\ pc = "parse_command" =>
       /\ \A g \in CapturedGroups(text) : WellFormedLiteral(g) /\ float(g) # FloatError
       /\ parsed.shape = None =>
            DOMAIN parsed.parameters = {} /\ parsed.confidence = Conf03
       /\ (parsed.shape # None /\ NothingExtractable(text)) =>
            parsed.parameters = Defaults(parsed.shape) /\ parsed.confidence = Conf08

\* a command whose text holds a number that ends in a point, and a sign or a
\* point that belongs to no number, has been parsed
C4_Witness ==
  /\ pc = "parse_command"
  /\ parsed.shape # None
  /\ <<"1", ".">> \in CapturedGroups(text)
  /\ \E i \in 1..Len(text) :
       text[i] \in {"-", "."} /\ (i = Len(text) \/ ~IsDigit(text[i + 1]))
            /\ (i = 1 \/ ~IsDigit(text[i - 1]))

RECURSIVE WithoutCoordinates(_, _)
\* t from position pos on with every coordinate pair replaced by a space
WithoutCoordinates(t, pos) ==
  IF pos > Len(t) THEN <<>>
  ELSE IF CoordMatchAt(t, pos).end = 0 THEN <<t[pos]>> \o WithoutCoordinates(t, pos + 1)
  ELSE <<" ">> \o WithoutCoordinates(t, CoordMatchAt(t, pos).end)

\* the radius of a circle command as the documentation gives it
DocumentedRadius(t) ==
  LET en == KeywordNumberSearch(t, 1, <<"r","a","d","i","u","s">>, <<>>, TRUE)
      cn == KeywordNumberSearch(t, 1, <<"u534a","u5f84">>, <<>>, FALSE)
      coords   == extract_coordinates(t)
      numbers  == extract_numbers(t)
      leftover == extract_numbers(WithoutCoordinates(t, 1))
  IN  IF en # <<>> THEN float(en)
      ELSE IF cn # <<>> THEN float(cn)
      ELSE IF coords # <<>> /\ leftover # <<>> THEN leftover[1]
      ELSE IF coords = <<>> /\ numbers # <<>> THEN numbers[1]
      ELSE Num(50)

\* C10: for a circle command, center is the first coordinate or (0,0), and
\* radius is the keyword value, else with coordinates the first number that
\* is no coordinate component wherever it stands, else without coordinates
\* the first number, else 50; with no colour word the mapping holds exactly
\* center and radius.
C10_CircleRadiusChain ==
  (pc = "parse_command" /\ parsed.shape = "circle") =>
    /\ parsed.parameters.center =
         IF extract_coordinates(text) # <<>> THEN extract_coordinates(text)[1] ELSE Origin
    /\ parsed.parameters.radius = DocumentedRadius(text)
    /\ ~ColorWordOccurs(text) => DOMAIN parsed.parameters = {"center", "radius"}

\* the five fields of two results agree
SameCommand(a, b) ==
  /\ a.action = b.action
  /\ a.shape = b.shape
  /\ a.parameters = b.parameters
  /\ a.raw_text = b.raw_text
  /\ a.confidence = b.confidence

InvocationStep ==
  /\ COLOR_MAP' = COLOR_MAP
  /\ SHAPE_KEYWORDS' = SHAPE_KEYWORDS
  /\ ACTION_KEYWORDS' = ACTION_KEYWORDS
  /\ _color_pattern' = _color_pattern
  /\ \A c \in Callers :
       /\ frames'[c].pc # "raised"
       /\ (frames[c].pc # "returned" /\ frames'[c].pc = "returned") =>
            /\ frames'[c].text = frames[c].text
            /\ SameCommand(frames'[c].ret, parse_command(frames[c].text).ret)
       /\ frames[c].pc = "returned" => frames'[c] = frames[c]

\* C6: under any interleaving of the callers' statements, no statement
\* writes the keyword tables, the colour map or the compiled colour pattern,
\* and every invocation returns the result parse_command gives when run
\* alone on its text; the callers take no lock.
C6_InterleavingSafe == [][InvocationStep]_vars

\* two callers with different texts are inside parse_command at once, one
\* having put its colour into its parameters, the other about to look for
\* its own
C6_Witness ==
  \E c, d \in Callers :
    /\ frames[c].pc = "return"
    /\ frames[d].pc = "color"
    /\ frames[c].text # frames[d].text
    /\ "color" \in DOMAIN frames[c].params

\* the indexes of the colour table entries whose surface form occurs in t
ColorHits(t) == Hits(COLOR_MAP, t)

\* C11: after the shape-specific parse the parameter mapping has the key
\* color exactly when a colour surface form occurs anywhere in the text, its
\* value is the index the table maps an occurring form to, no shape parser
\* stores that key itself, and the circle command U+5706 U+7EA2 U+8272 (0,0)
\* U+534A U+5F84 30 yields center (0,0), radius 30 and colour index 1.
C11_ColorInjected ==
  (pc = "parse_command" /\ parsed.shape # None) =>
    /\ "color" \in DOMAIN parsed.parameters <=> ColorHits(text) # {}
    /\ "color" \in DOMAIN parsed.parameters =>
         parsed.parameters.color \in {COLOR_MAP[i][2] : i \in ColorHits(text)}
    /\ "color" \notin DOMAIN Dispatch(parsed.shape, text).params
    /\ text = <<"u5706", "u7ea2", "u8272", " ", "(", "0", ",", "0", ")",
                "u534a", "u5f84", "3", "0">> =>
         /\ parsed.shape = "circle"
         /\ parsed.parameters.center = <<Num(0), Num(0)>>
         /\ parsed.parameters.radius = Num(30)
         /\ parsed.parameters.color = 1

\* C12 as stated: every text whose action resolves to save takes the degraded
\* no-shape path: shape none, parameters empty, confidence 0.3.
C12_SaveNeverShaped ==
  (pc = "parse_command" /\ parsed.action = "save") =>
    /\ parsed.shape = None
    /\ DOMAIN parsed.parameters = {}
    /\ parsed.confidence = Conf03

\* C12 as amended: a save command never gets the shape save nor the
\* file_path of _parse_save; it takes the degraded no-shape path exactly when
\* no shape surface form occurs in its text, and is otherwise parsed as the
\* shape whose form occurs, with that shape's parameters at confidence 0.8.
C12_SaveShapedOnlyByShapeWord ==
  (pc = "parse_command" /\ parsed.action = "save") =>
    /\ parsed.shape \in ShapeTags \cup {None}
    /\ "file_path" \notin DOMAIN parsed.parameters
    /\ NoShapeForm(text) =>
         /\ parsed.shape = None
         /\ DOMAIN parsed.parameters = {}
         /\ parsed.confidence = Conf03
    /\ ~NoShapeForm(text) =>
         /\ parsed.shape = FirstTag(SHAPE_KEYWORDS, text)
         /\ DOMAIN parsed.parameters # {}
         /\ parsed.confidence = Conf08

\* a save command with a shape word has been parsed as that shape
C12_Witness ==
  /\ pc = "parse_command"
  /\ parsed.action = "save"
  /\ parsed.shape = "line"
  /\ parsed.confidence = Conf08

\* the dict a reply carries: the return value, or the document of the JSON
\* string handle_tool_call returned
ResultOf(r) == IF "json" \in DOMAIN r.ret THEN r.ret.json ELSE r.ret

\* C13: every operation of the service (a draw_* / add_dimension /
\* save_drawing call, process_natural_language, handle_tool_call) returns a
\* result with a boolean success flag, and with an error string whenever
\* success is false; calls that leave out layer, color and lineweight are
\* among them.
C13_ResultCarriesSuccess ==
  reply # NoReply =>
    /\ reply.exc = None
    /\ "success" \in DOMAIN ResultOf(reply)
    /\ ResultOf(reply).success \in BOOLEAN
    /\ ~ResultOf(reply).success =>
         /\ "error" \in DOMAIN ResultOf(reply)
         /\ ResultOf(reply).error \in STRING

\* C14: for an arc command, center and radius are the ones the circle rules
\* give on the same text: the same center rule and the same radius fallback
\* chain (radius keyword, U+534A U+5F84 keyword, number after the
\* coordinates, first number, 50).
C14_ArcAsCircle ==
  (pc = "parse_command" /\ parsed.shape = "arc") =>
    /\ parsed.parameters.center = _parse_circle(text).params.center
    /\ parsed.parameters.radius = _parse_circle(text).params.radius

\* the number after keyword kw (re.IGNORECASE, after an optional word opt),
\* <<>> when the keyword form does not match in the text
English(kw, opt) == KeywordNumberSearch(text, 1, kw, opt, TRUE)

\* the number after the Chinese keyword kw, <<>> when it does not match
Chinese(kw) == KeywordNumberSearch(text, 1, kw, <<>>, FALSE)

\* the value of a parameter with an English and a Chinese keyword
Overridden(english, chinese, default) ==
  IF chinese # <<>> THEN float(chinese)
  ELSE IF english # <<>> THEN float(english)
  ELSE default

\* C15: when the English and the Chinese keyword of one parameter both match,
\* the Chinese value wins: for an arc U+8D77 U+59CB U+89D2 and
\* U+7EC8 U+6B62 U+89D2 override start and end (0 and 90 when neither
\* matches), for a text U+9AD8 U+5EA6 overrides height (2.5 when neither
\* matches).
C15_ChineseOverridesEnglish ==
  /\ (pc = "parse_command" /\ parsed.shape = "arc") =>
       /\ parsed.parameters.start_angle =
            Overridden(English(<<"s","t","a","r","t">>, <<"a","n","g","l","e">>),
                       Chinese(<<"u8d77","u59cb","u89d2">>), Num(0))
       /\ parsed.parameters.end_angle =
            Overridden(English(<<"e","n","d">>, <<"a","n","g","l","e">>),
                       Chinese(<<"u7ec8","u6b62","u89d2">>), Num(90))
  /\ (pc = "parse_command" /\ parsed.shape = "text") =>
       parsed.parameters.height =
         Overridden(English(<<"h","e","i","g","h","t">>, <<>>),
                    Chinese(<<"u9ad8","u5ea6">>), [m |-> 25, e |-> 1])

\* an arc whose text has both keywords of the start angle and of the end
\* angle, with the English ones last
C15_Witness ==
  /\ pc = "parse_command"
  /\ parsed.shape = "arc"
  /\ text = <<"a","r","c", "u8d77","u59cb","u89d2","2","0",
              " ","s","t","a","r","t"," ","1","0">>
  /\ parsed.parameters.start_angle = Num(20)
  /\ parsed.parameters.end_angle = Num(90)

\* a text command whose text has both height keywords
C15_WitnessText ==
  /\ pc = "parse_command"
  /\ parsed.shape = "text"
  /\ English(<<"h","e","i","g","h","t">>, <<>>) = <<"3">>
  /\ Chinese(<<"u9ad8","u5ea6">>) = <<"4">>
  /\ parsed.parameters.height = Num(4)

\* the coordinates of the command text, in order
Coordinates == extract_coordinates(text)

\* C16: for a rectangle command with at least two coordinates, corner1 and
\* corner2 are the first two coordinates and the width and height keywords
\* are ignored; with fewer than two, corner1 is (0,0) and corner2 is
\* (width, height), each taken from its English or Chinese (U+5BBD, U+9AD8)
\* keyword and, independently of the other, defaulting to 100 and 50.
C16_RectangleCorners ==
  (pc = "parse_command" /\ parsed.shape = "rectangle") =>
    /\ DOMAIN parsed.parameters \ {"color"} = {"corner1", "corner2"}
    /\ Len(Coordinates) >= 2 =>
         /\ parsed.parameters.corner1 = Coordinates[1]
         /\ parsed.parameters.corner2 = Coordinates[2]
    /\ Len(Coordinates) < 2 =>
         /\ parsed.parameters.corner1 = <<Num(0), Num(0)>>
         /\ parsed.parameters.corner2[1] =
              Overridden(English(<<"w","i","d","t","h">>, <<>>), Chinese(<<"u5bbd">>),
                         Num(100))
         /\ parsed.parameters.corner2[2] =
              Overridden(English(<<"h","e","i","g","h","t">>, <<>>), Chinese(<<"u9ad8">>),
                         Num(50))
    /\ (Coordinates = <<>> /\ extract_numbers(text) = <<>>) =>
         parsed.parameters.corner2 = <<Num(100), Num(50)>>

\* a rectangle command with exactly one coordinate and a width keyword only
C16_Witness ==
  /\ pc = "parse_command"
  /\ parsed.shape = "rectangle"
  /\ Len(Coordinates) = 1
  /\ parsed.parameters.corner1 = <<Num(0), Num(0)>>
  /\ parsed.parameters.corner2 = <<Num(7), Num(50)>>

\* a closing keyword occurs in the command text, in any letter case
ClosingKeywordOccurs ==
  \E kw \in {<<"c","l","o","s","e","d">>, <<"c","l","o","s","e">>,
             <<"u95ed","u5408">>, <<"u5c01","u95ed">>} :
    Occurs(kw, Lower(text))

\* C17: for a polyline command, points is the whole ordered list of
\* coordinates when there are at least two, else (0,0), (50,50), (100,0);
\* closed is true exactly when a closing keyword (closed, close,
\* U+95ED U+5408, U+5C01 U+95ED) occurs in the text, with or without
\* coordinates.
C17_PolylinePoints ==
  (pc = "parse_command" /\ parsed.shape = "polyline") =>
    /\ DOMAIN parsed.parameters \ {"color"} = {"points", "closed"}
    /\ Len(Coordinates) >= 2 => parsed.parameters.points = Coordinates
    /\ Len(Coordinates) < 2 =>
         parsed.parameters.points =
           <<<<Num(0), Num(0)>>, <<Num(50), Num(50)>>, <<Num(100), Num(0)>>>>
    /\ parsed.parameters.closed <=> ClosingKeywordOccurs

\* a polyline command with one coordinate and a closing keyword: the default
\* points, closed
C17_Witness ==
  /\ pc = "parse_command"
  /\ parsed.shape = "polyline"
  /\ Len(Coordinates) = 1
  /\ ClosingKeywordOccurs
  /\ Len(parsed.parameters.points) = 3
  /\ parsed.parameters.closed

\* a polyline command with three coordinates and no closing keyword
C17_WitnessPoints ==
  /\ pc = "parse_command"
  /\ parsed.shape = "polyline"
  /\ Len(Coordinates) = 3
  /\ parsed.parameters.points = Coordinates
  /\ ~parsed.parameters.closed

\* the midpoint of points a and b, shifted by 10 on Y
AboveMidpoint(a, b) ==
  <<FloatHalf(FloatAdd(a[1], b[1])), FloatAdd(FloatHalf(FloatAdd(a[2], b[2])), Num(10))>>

\* C18: for a dimension command with at least two coordinates, start and end
\* are the first two coordinates and text_position is the third coordinate
\* when there is one, otherwise the midpoint of start and end shifted by +10
\* on Y; with fewer than two coordinates the result is start (0,0),
\* end (100,0), text_position (50,10).
C18_DimensionPoints ==
  (pc = "parse_command" /\ parsed.shape = "dimension") =>
    /\ DOMAIN parsed.parameters \ {"color"} = {"start", "end", "text_position"}
    /\ Len(Coordinates) >= 2 =>
         /\ parsed.parameters.start = Coordinates[1]
         /\ parsed.parameters.end = Coordinates[2]
         /\ parsed.parameters.text_position =
              IF Len(Coordinates) >= 3 THEN Coordinates[3]
              ELSE AboveMidpoint(Coordinates[1], Coordinates[2])
    /\ Len(Coordinates) < 2 =>
         /\ parsed.parameters.start = <<Num(0), Num(0)>>
         /\ parsed.parameters.end = <<Num(100), Num(0)>>
         /\ parsed.parameters.text_position = <<Num(50), Num(10)>>

\* the dimension from (1.5,4) to (5,-6): text_position is (3.25, 9)
C18_Witness ==
  /\ pc = "parse_command"
  /\ parsed.shape = "dimension"
  /\ Len(Coordinates) = 2
  /\ parsed.parameters.start = <<[m |-> 15, e |-> 1], Num(4)>>
  /\ parsed.parameters.end = <<Num(5), Num(-6)>>
  /\ parsed.parameters.text_position = <<[m |-> 325, e |-> 2], Num(9)>>

\* a dimension command with three coordinates: the third is the text position
C18_WitnessThird ==
  /\ pc = "parse_command"
  /\ parsed.shape = "dimension"
  /\ Len(Coordinates) = 3
  /\ parsed.parameters.text_position = Coordinates[3]
  /\ parsed.parameters.text_position # AboveMidpoint(Coordinates[1], Coordinates[2])

\* what a hatch command has apart from the default boundary: the whole list
\* of coordinates as boundary when there are at least three, the upper-cased
\* name after the pattern keyword or SOLID, the number after the scale
\* keyword or 1.0
HatchParameters ==
  /\ DOMAIN parsed.parameters \ {"color"} =
       {"boundary_points", "pattern_name", "pattern_scale"}
  /\ Len(Coordinates) >= 3 => parsed.parameters.boundary_points = Coordinates
  /\ parsed.parameters.pattern_name =
       IF PatternNameSearch(text, 1) = <<>> THEN <<"S","O","L","I","D">>
       ELSE [i \in 1..Len(PatternNameSearch(text, 1)) |->
               UpperChar(PatternNameSearch(text, 1)[i])]
  /\ parsed.parameters.pattern_scale =
       IF English(<<"s","c","a","l","e">>, <<>>) = <<>> THEN Num(1)
       ELSE float(English(<<"s","c","a","l","e">>, <<>>))

\* C19 as stated: for a hatch command, boundary_points is the whole list of
\* coordinates when there are at least three, else the unit square;
\* pattern_name is SOLID unless a pattern keyword supplies a name, which is
\* stored upper-cased; pattern_scale is 1.0 unless a scale keyword supplies
\* a number.
C19_HatchUnitSquare ==
  (pc = "parse_command" /\ parsed.shape = "hatch") =>
    /\ HatchParameters
    /\ Len(Coordinates) < 3 =>
         parsed.parameters.boundary_points =
           <<<<Num(0), Num(0)>>, <<Num(1), Num(0)>>, <<Num(1), Num(1)>>,
             <<Num(0), Num(1)>>>>

\* C19, amended: as stated, but the default boundary is the square of side
\* 100 at the origin, (0,0), (100,0), (100,100), (0,100).
C19_HatchParameters ==
  (pc = "parse_command" /\ parsed.shape = "hatch") =>
    /\ HatchParameters
    /\ Len(Coordinates) < 3 =>
         parsed.parameters.boundary_points =
           <<<<Num(0), Num(0)>>, <<Num(100), Num(0)>>, <<Num(100), Num(100)>>,
             <<Num(0), Num(100)>>>>

\* a hatch command with two coordinates and a pattern keyword: the default
\* boundary and the upper-cased name
C19_Witness ==
  /\ pc = "parse_command"
  /\ parsed.shape = "hatch"
  /\ Len(Coordinates) = 2
  /\ Len(parsed.parameters.boundary_points) = 4
  /\ parsed.parameters.boundary_points[3] = <<Num(100), Num(100)>>
  /\ parsed.parameters.pattern_name = <<"A","N","S","I","3">>

\* a hatch command with three coordinates
C19_WitnessBoundary ==
  /\ pc = "parse_command"
  /\ parsed.shape = "hatch"
  /\ Len(Coordinates) = 3
  /\ parsed.parameters.boundary_points = Coordinates

\* C20: for a line command, start and end are the first and the second
\* coordinate when the text has at least two; with no coordinate or exactly
\* one the result is start (0,0), end (100,100), and the single coordinate
\* is in neither.
C20_LineEndpoints ==
  (pc = "parse_command" /\ parsed.shape = "line") =>
    /\ DOMAIN parsed.parameters \ {"color"} = {"start", "end"}
    /\ Len(Coordinates) >= 2 =>
         /\ parsed.parameters.start = Coordinates[1]
         /\ parsed.parameters.end = Coordinates[2]
    /\ Len(Coordinates) < 2 =>
         /\ parsed.parameters.start = <<Num(0), Num(0)>>
         /\ parsed.parameters.end = <<Num(100), Num(100)>>

\* a line command with exactly one coordinate, (1,2), which is dropped
C20_Witness ==
  /\ pc = "parse_command"
  /\ parsed.shape = "line"
  /\ Coordinates = <<<<Num(1), Num(2)>>>>
  /\ parsed.parameters.start = <<Num(0), Num(0)>>
  /\ parsed.parameters.end = <<Num(100), Num(100)>>

\* a line command with three coordinates: the first two are the end points
C20_WitnessPair ==
  /\ pc = "parse_command"
  /\ parsed.shape = "line"
  /\ Len(Coordinates) = 3
  /\ parsed.parameters.start = Coordinates[1]
  /\ parsed.parameters.end = Coordinates[2]

(***************************************************************************)
(* Quoted spans.                                                           *)
(***************************************************************************)
\* the positions where a span inside open ... close starts: the character
\* is open, the next close after it comes after at least one character
SpanStarts(open, close) ==
  {i \in 1..Len(text) : text[i] = open /\ FindChar(text, i + 1, {close}) > i + 1}

\* the span that starts at position i and ends before the next close
SpanAt(i, close) == SubSeq(text, i + 1, FindChar(text, i + 1, {close}) - 1)

\* the leftmost span inside open ... close
FirstSpan(open, close) ==
  SpanAt(CHOOSE i \in SpanStarts(open, close) : \A j \in SpanStarts(open, close) : i <= j,
         close)

\* C22: extract_quoted_text returns the first span inside straight double
\* quotes; when there is none, the first inside straight single quotes; when
\* there is none either, the first inside corner brackets; and none
\* (<<>>) when the text has no quoted span.
C22_QuotedByPriority ==
  pc = "extract_quoted_text" =>
    found = IF SpanStarts("\"", "\"") # {} THEN FirstSpan("\"", "\"")
            ELSE IF SpanStarts("'", "'") # {} THEN FirstSpan("'", "'")
            ELSE IF SpanStarts("u300c", "u300d") # {} THEN FirstSpan("u300c", "u300d")
            ELSE <<>>

\* the positions where a span inside quotes of one kind starts
QuotedSpanStarts ==
  SpanStarts("\"", "\"") \cup SpanStarts("'", "'") \cup SpanStarts("u300c", "u300d")

\* the first quoted span of the text, <<>> when it has none
FirstQuotedSpan ==
  IF QuotedSpanStarts = {} THEN <<>>
  ELSE SpanAt(CHOOSE i \in QuotedSpanStarts : \A j \in QuotedSpanStarts : i <= j,
              IF text[CHOOSE i \in QuotedSpanStarts : \A j \in QuotedSpanStarts : i <= j]
                   = "u300c"
              THEN "u300d"
              ELSE text[CHOOSE i \in QuotedSpanStarts : \A j \in QuotedSpanStarts : i <= j])

\* C21: for a text command, position is the first coordinate or (0,0), and
\* the text parameter is the first quoted span, or Text when the command has
\* no quoted span; it is never empty.
C21_TextContent ==
  (pc = "parse_command" /\ parsed.shape = "text") =>
    /\ parsed.parameters.position =
         IF Coordinates # <<>> THEN Coordinates[1] ELSE <<Num(0), Num(0)>>
    /\ parsed.parameters.text =
         IF FirstQuotedSpan # <<>> THEN FirstQuotedSpan ELSE <<"T","e","x","t">>
    /\ parsed.parameters.text # <<>>

(***************************************************************************)
(* Coordinates and numbers.                                                *)
(***************************************************************************)
\* the positions of the text where a number-comma-number pair, with or
\* without parentheses and white space around it, can be read
PairPositions == {i \in 1..Len(text) : CoordMatchAt(text, i).end # 0}

RECURSIVE PairStarts(_)
\* the positions of the pairs met reading left to right from position pos,
\* each pair read after the end of the one before
PairStarts(pos) ==
  IF pos > Len(text) THEN <<>>
  ELSE IF pos \in PairPositions
       THEN <<pos>> \o PairStarts(CoordMatchAt(text, pos).end)
  ELSE PairStarts(pos + 1)

C23_WitnessEmpty ==
  /\ pc = "extract_coordinates"
  /\ Len(text) > 3
  /\ found = <<>>

RECURSIVE Components(_, _)
\* x1, y1, x2, y2, ... of the first n pairs of coords
Components(coords, n) ==
  IF n = 0 THEN <<>>
  ELSE Components(coords, n - 1) \o <<coords[n][1], coords[n][2]>>

RECURSIVE InOrderWithin(_, _, _, _)
\* a[i..] occurs in b[j..] in the same relative order
InOrderWithin(a, i, b, j) ==
  IF i > Len(a) THEN TRUE
  ELSE IF j > Len(b) THEN FALSE
  ELSE IF a[i] = b[j] THEN InOrderWithin(a, i + 1, b, j + 1)
  ELSE InOrderWithin(a, i, b, j + 1)

\* C24 as stated: extract_numbers returns the numbers of the text in order
\* without de-duplication against coordinates: both components of every pair
\* extract_coordinates returns are in the number list too, in the same
\* relative order, so the number list is at least twice as long as the
\* coordinate list.
C24_NumbersHoldCoordinates ==
  pc = "extract_numbers" =>
    /\ InOrderWithin(Components(Coordinates, Len(Coordinates)), 1, found, 1)
    /\ Len(found) >= 2 * Len(Coordinates)

\* a number with a decimal point and at least one digit after it is
\* directly followed by another decimal point, as in 1.5.5 or 1.5.
PointAfterFraction ==
  \E i \in 2..Len(text) : \E j \in (i + 2)..Len(text) :
    /\ IsDigit(text[i - 1])
    /\ text[i] = "."
    /\ text[j] = "."
    /\ \A k \in (i + 1)..(j - 1) : IsDigit(text[k])

\* What holds of the two lists: the number list is at least twice as long
\* as the coordinate list, and unless a number with a fraction is directly
\* followed by another decimal point, both components of every pair are in
\* the number list, in the same relative order.
NumbersCoverCoordinates ==
  pc = "extract_numbers" =>
    /\ Len(found) >= 2 * Len(Coordinates)
    /\ ~PointAfterFraction =>
         InOrderWithin(Components(Coordinates, Len(Coordinates)), 1, found, 1)

\* (10,20) after 1.5: three numbers, of which the last two are the pair
NumbersAfterNumber ==
  /\ pc = "extract_numbers"
  /\ Coordinates = <<<<Num(10), Num(20)>>>>
  /\ found = <<[m |-> 15, e |-> 1], Num(10), Num(20)>>

(***************************************************************************)
(* Dispatch.                                                               *)
(***************************************************************************)
\* what the parser written for shape tag s returns on the command text
ParserOf(s) ==
  CASE s = "line"      -> _parse_line(text)
    [] s = "circle"    -> _parse_circle(text)
    [] s = "arc"       -> _parse_arc(text)
    [] s = "ellipse"   -> _parse_ellipse(text)
    [] s = "rectangle" -> _parse_rectangle(text)
    [] s = "polyline"  -> _parse_polyline(text)
    [] s = "text"      -> _parse_text(text)
    [] s = "dimension" -> _parse_dimension(text)
    [] s = "hatch"     -> _parse_hatch(text)

\* parameters without the colour parse_command adds
OwnParameters == [k \in DOMAIN parsed.parameters \ {"color"} |-> parsed.parameters[k]]

\* C25: parse_command hands each recognised shape tag to the parser of that
\* same shape; the generic parser, which sets points alone and only when the
\* text has coordinates, is used for none of the nine shape tags, and the
\* save parser (file_path) is never reached.
C25_DispatchByShape ==
  (pc = "parse_command" /\ parsed.shape # None) =>
    /\ parsed.shape \in ShapeTags
    /\ OwnParameters = ParserOf(parsed.shape).params
    /\ OwnParameters # _parse_generic(text).params
    /\ "file_path" \notin DOMAIN parsed.parameters

\* a dimension command with one coordinate: the dimension parser's three
\* points, where the generic parser would return that coordinate as points
C25_Witness ==
  /\ pc = "parse_command"
  /\ parsed.shape = "dimension"
  /\ Len(Coordinates) = 1
  /\ DOMAIN parsed.parameters = {"start", "end", "text_position"}
  /\ DOMAIN _parse_generic(text).params = {"points"}

(***************************************************************************)
(* The drawing state of the service.                                       *)
(***************************************************************************)
\* state.entities, empty while there is no service
Entities == IF cad_service = NoService THEN <<>> ELSE cad_service.entities

\* the operation recorded in state.last_command, "" when it holds the text
\* of a natural-language command or nothing
RecordedOperation ==
  IF cad_service = NoService \/ cad_service.last_command = <<>> THEN ""
  ELSE IF cad_service.last_command[1] \in
            {"draw_line", "draw_circle", "draw_arc", "draw_ellipse", "draw_polyline",
             "draw_rectangle", "draw_text", "draw_hatch", "add_dimension", "save_drawing"}
       THEN cad_service.last_command[1]
  ELSE ""

\* the last operation came back with success = true
Succeeded == reply # NoReply /\ reply.exc = None /\ ResultOf(reply).success

\* this step is a call of a service operation
CallStep == steps' = steps + 1 /\ ~HostChanges(host')

\* C26: state.entities changes only by one entity appended when a draw_* or
\* add_dimension call returns success; a call that returns success = false
\* or raises, and every save_drawing call, leaves it unchanged; so the list
\* never shrinks, and the entity_count reported is its length.
C26_EntitiesOnlyAppended ==
  [][/\ Entities' # Entities =>
          /\ CallStep
          /\ Succeeded'
          /\ RecordedOperation' \notin {"", "save_drawing"}
          /\ Entities' = Append(Entities, ResultOf(reply'))
     /\ (CallStep /\ Succeeded' /\ RecordedOperation' # "save_drawing") =>
          Len(Entities') = Len(Entities) + 1
     /\ (CallStep /\ ~Succeeded') => Entities' = Entities
     /\ RecordedOperation' = "save_drawing" => Entities' = Entities
     /\ cad_service' # NoService =>
          to_dict(cad_service').entity_count = Len(Entities')]_vars

\* a second entity has been appended to the first
C26_Witness ==
  /\ Len(Entities) = 2
  /\ Succeeded
  /\ ResultOf(reply) = Entities[2]

\* a save that succeeded after a draw: one entity still
C26_WitnessSave ==
  /\ Len(Entities) = 1
  /\ Succeeded
  /\ RecordedOperation = "save_drawing"

\* state.last_command holds the text of a natural-language command
CommandRecorded ==
  /\ cad_service # NoService
  /\ cad_service.last_command # <<>>
  /\ RecordedOperation = ""

\* C27: state.last_result describes the outcome of the operation recorded in
\* state.last_command: when process_natural_language has returned
\* success = false for a command, that command is not left in last_command
\* next to a last_result of "success" from an earlier operation.
C27_LastResultOfLastCommand ==
  (CommandRecorded /\ reply # NoReply /\ ~Succeeded) => cad_service.last_result # "success"

\* the messages with which the draw methods reject their arguments
ArgumentErrors ==
  { "Coordinates must have at least 2 values", "Center must have at least 2 coordinates",
    "Radius must be positive", "Major axis must be positive",
    "Minor axis must be non-negative", "Polyline requires at least 2 points",
    "Corners must have at least 2 coordinates", "Position must have at least 2 coordinates",
    "Text cannot be empty", "Height must be positive",
    "Hatch requires at least 3 boundary points", "Pattern name cannot be empty",
    "Pattern scale must be positive", "All points must have at least 2 coordinates",
    "Color must be between 0 and 255" }
  \cup { "Point " \o ToString(i) \o " must have at least 2 coordinates" : i \in 0..2 }

\* the reply r is a rejection with one of these messages
RejectedWith(r, errors) ==
  /\ r # NoReply
  /\ r.exc = None
  /\ ~ResultOf(r).success
  /\ "error" \in DOMAIN ResultOf(r)
  /\ ResultOf(r).error \in errors

\* the last operation was rejected with one of these messages
Rejected(errors) == RejectedWith(reply, errors)

\* what the service holds of the CAD application
Connection ==
  IF cad_service = NoService THEN <<FALSE, FALSE, FALSE, FALSE, FALSE>>
  ELSE <<cad_service._initialized, cad_service._com_initialized, cad_service.app,
         cad_service.doc, cad_service.model_space>>

OperationOf(shape) ==
  CASE shape = "line"      -> "draw_line"
    [] shape = "circle"    -> "draw_circle"
    [] shape = "arc"       -> "draw_arc"
    [] shape = "ellipse"   -> "draw_ellipse"
    [] shape = "rectangle" -> "draw_rectangle"
    [] shape = "polyline"  -> "draw_polyline"
    [] shape = "text"      -> "draw_text"
    [] shape = "hatch"     -> "draw_hatch"
    [] shape = "dimension" -> "add_dimension"
    [] OTHER               -> ""

\* the answers of process_natural_language that come from no handler
NoHandlerErrors(command) ==
  {"Could not understand command: " \o Join(command)}
  \cup {"Unsupported shape: " \o SHAPE_KEYWORDS[i][2] : i \in DOMAIN SHAPE_KEYWORDS}

\* C29: process_natural_language runs the handler of the parsed shape and of
\* nothing else: whatever the parsed action, a command with a shape word is
\* answered by the draw operation of its shape, never with "Unsupported
\* shape"; a command with no shape word is answered with success = false
\* and no handler runs, so nothing is drawn and CAD is not approached.
C29_HandlerByShape ==
  [][(CallStep /\ text' # <<>> /\ reply'.exc = None) =>
       \A shape \in {identify_shape(text')} :
           IF shape = None
           THEN /\ RejectedWith(reply', {"Could not understand command: " \o Join(text')})
                /\ Entities' = Entities
                /\ Connection' = Connection
                /\ host' = host
           ELSE /\ ~RejectedWith(reply', NoHandlerErrors(text'))
                /\ OperationOf(shape) # ""
                /\ Succeeded' =>
                     /\ RecordedOperation' = OperationOf(shape)
                     /\ Entities' = Append(Entities, ResultOf(reply'))
                /\ ~Succeeded' => Entities' = Entities]_vars

\* the command "save rect", whose action is save, has drawn the rectangle
\* of its shape with the default corners
C29_Witness ==
  /\ parse_command(<<"s","a","v","e"," ","r","e","c","t">>).ret.action = "save"
  /\ Succeeded
  /\ RecordedOperation = "draw_rectangle"
  /\ cad_service.last_command[2] = <<Num(0), Num(0)>>
  /\ text = <<"s","a","v","e"," ","r","e","c","t">>
  /\ cad_service.last_command[3] = <<Num(100), Num(50)>>
  /\ Entities = <<ResultOf(reply)>>

\* a command without a shape word has been answered, nothing drawn
C29_WitnessNoShape ==
  /\ text = <<"h","e","l","l","o">>
  /\ Rejected({"Could not understand command: hello"})
  /\ Entities = <<>>

\* the arguments each tool reads with arguments[...] (lines 888-970)
RequiredArguments(name) ==
  CASE name = "draw_line"       -> {"start", "end"}
    [] name = "draw_circle"     -> {"center", "radius"}
    [] name = "draw_arc"        -> {"center", "radius", "start_angle", "end_angle"}
    [] name = "draw_ellipse"    -> {"center", "major_axis", "minor_axis"}
    [] name = "draw_polyline"   -> {"points"}
    [] name = "draw_rectangle"  -> {"corner1", "corner2"}
    [] name = "draw_text"       -> {"position", "text"}
    [] name = "draw_hatch"      -> {"boundary_points"}
    [] name = "add_dimension"   -> {"start", "end", "text_position"}
    [] name = "save_drawing"    -> {"file_path"}
    [] name = "process_command" -> {"command"}
    [] OTHER                    -> {}

ToolNames ==
  {"draw_line", "draw_circle", "draw_arc", "draw_ellipse", "draw_polyline",
   "draw_rectangle", "draw_text", "draw_hatch", "add_dimension", "save_drawing",
   "process_command"}

\* C30: handle_tool_call never lets an exception out: whatever the tool call,
\* it returns a JSON document; for an unknown tool name, for a missing
\* required argument and when the service or the controller raises (as every
\* call that reaches CAD does where win32com cannot be imported) the document
\* has success = false and an error string, and no entity has been added.
C30_ToolCallNeverRaises ==
  [][\A call \in ToolCalls :
       (CallStep /\ pc' = "handle_tool_call" /\ HandleToolCall(call.name, call.arguments)) =>
         /\ reply'.exc = None
         /\ "json" \in DOMAIN reply'.ret
         /\ ResultOf(reply').success \in BOOLEAN
         /\ (\/ call.name \notin ToolNames
             \/ RequiredArguments(call.name) \ DOMAIN call.arguments # {}
             \/ ~host.win32com) => ~ResultOf(reply').success
         /\ ~ResultOf(reply').success =>
              /\ "error" \in DOMAIN ResultOf(reply')
              /\ ResultOf(reply').error \in STRING
              /\ Entities' = Entities]_vars

\* a tool call whose service call raised has been answered with a document
C30_Witness ==
  /\ ~host.win32com
  /\ reply # NoReply
  /\ "json" \in DOMAIN reply.ret
  /\ Rejected({"ModuleNotFoundError"})
  /\ Entities = <<>>

\* a tool call without a required argument, and one of an unknown tool
C30_WitnessMissing == "json" \in DOMAIN reply.ret /\ Rejected({"'end'", "'end_angle'"})

C30_WitnessUnknown == "json" \in DOMAIN reply.ret /\ Rejected({"Unknown tool: zoom"})

====
